---- MODULE Spec2Model ----
(***************************************************************************)
(* fs2cloud: catalog, push pipeline, pull and the out-of-order chunked     *)
(* SHA-256, modelled from the Rust sources.                                *)
(*                                                                         *)
(* Byte strings are sequences of numbers in 1..255.  A textual SHA-256     *)
(* digest is modelled as a collision-free tagged value: the tag 0 followed *)
(* by the bytes that were fed to the hasher, so that two digests are equal *)
(* exactly when the hashed byte strings are equal.  The empty string ""    *)
(* (no digest) is the empty sequence.                                      *)
(***************************************************************************)
EXTENDS Integers, Sequences, FiniteSets, TLC

(***************************************************************************)
(* Bounds of the hasher exploration.                                       *)
(***************************************************************************)
MaxCalls == 5
MaxBlockIdx == 2

BlockData == {<<1>>, <<2>>}

(***************************************************************************)
(* Bounds and configuration of the catalog / push / pull exploration.      *)
(***************************************************************************)
MaxQueueSize == 1    \* largest max_queue_size of a pool (0 is the rendezvous channel)
MaxJobs == 3         \* jobs given to one pool

MaxRuns == 2         \* crawl runs over one tree
MaxChanges == 1      \* changes of a file of the tree between crawl runs
MaxFaults == 1   \* failing operations (file system, catalog) over the crawl runs
MaxEnvelopeLen == 6  \* longest byte string given to the decoding of an envelope
MaxPayloadLen == 2   \* longest payload of an encoded chunk
MaxEntries == 6      \* files of the tree whose folders are listed
MaxRoom == 3         \* entries the buffer of a readdir reply has room for

MaxFileSize == 6     \* largest source file, in bytes
ChunkSize == 2       \* chunks.size of the configuration
Workers == 2         \* workers of the configuration
AggregateMinSize == 0

FileIds == {1}       \* the files under the root folder
WorkerIds == 1..Workers

VARIABLES
    hs,      \* the ChunkedSha256 under test: next_block, hasher, pending_blocks
    calls,   \* the calls made on hs since ChunkedSha256::new(), with what they returned
    ret      \* what the last call of finalize() returned

VARIABLES
    disk,        \* disk[f]: length of source file f under the root folder
    files,       \* catalog, files table: one row per file id (present or not)
    chunks,      \* catalog, chunks table: chunks[f][idx] is a chunk row
    store,       \* object store: uuid -> stored bytes
    ppc,         \* push process: "idle" (not running) or "files" (in Push::execute)
    filesTodo,   \* Push::execute: files of the listing still to iterate
    chunksTodo,  \* Push::execute: chunks of the current file still to process
    hashes,      \* Push.hashes: file -> ChunkedSha256 of the running process
    worker       \* thread pool workers and the step of the job each one runs

VARIABLES
    dest,        \* dest[f]: the destination file of a pull of f (exists, bytes)
    pull         \* pull process: pc, the file pulled, chunks whose job has not run

VARIABLES
    run,            \* observation: facts about the current / last push run
    markDoneCalls,  \* observation: number of files.mark_done calls per file
    doneFresh       \* observation: files marked Done by a run that pushed all their chunks

VARIABLES
    tp,          \* the ThreadPool and the thread that owns it (execute, drop)
    tpQueue,     \* the messages buffered in the sync_channel of the pool
    tpWorker,    \* the worker threads of the pool
    tpJobs       \* the jobs given to execute: accepted or not, runs, outcome

VARIABLES
    puller,      \* the thread running Pull::execute: position, jobs to submit, facts
    wchan,       \* the sync_channel::<Message> between the pull jobs and the writer
    writer,      \* the writer thread of the pull and the messages it has written
    pullJob      \* per pool worker: the clear chunk its pull job is about to send

VARIABLES
    tree,        \* the root folder of a crawl: path of a regular file -> its length
    cat,         \* the catalog of a crawl: files, chunks, aggregates and inodes tables
    crawl,       \* the crawl process (Crawl) and facts about its runs
    links        \* the symbolic links of the root folder: path -> kind of the target

VARIABLES
    fuse,        \* the mounted view: the last callback, its reply, the inode numbers given out
    inodeCalls,  \* the calls of get_inode_by_name_and_parent_id and what they returned
    cache        \* the cache layer of the store: cached files, delegate, last call

VARIABLES
    codec,       \* the envelope codec: the last chunk or bytes given to it and the outcome
    proc,        \* the process from main to its exit: the startup step that failed, the exit code
    pushers      \* two push processes on one catalog: position and running job of each

hashVars == <<hs, calls, ret>>
crawlVars == <<tree, cat, crawl, links>>
viewVars == <<fuse, inodeCalls, cache, codec, proc, pushers>>
pullerVars == <<puller, wchan, writer, pullJob>>
poolVars == <<tp, tpQueue, tpWorker, tpJobs>>
catalogVars == <<files, chunks>>
pushVars == <<ppc, filesTodo, chunksTodo, hashes, worker>>
pullVars == <<dest, pull>>
obsVars == <<run, markDoneCalls, doneFresh>>
vars == <<hs, calls, ret, disk, files, chunks, store, ppc, filesTodo, chunksTodo,
          hashes, worker, dest, pull, run, markDoneCalls, doneFresh,
          tp, tpQueue, tpWorker, tpJobs, puller, wchan, writer, pullJob,
          tree, cat, crawl, links, fuse, inodeCalls, cache,
          codec, proc, pushers>>

----------------------------------------------------------------------------
(***************************************************************************)
(* hash.rs and the sha256 helper of chunk.rs                               *)
(***************************************************************************)

None == [some |-> FALSE, value |-> << >>]
Some(v) == [some |-> TRUE, value |-> v]

EmptyString == << >>

\* format!("{:x}", Sha256(bytes)): tag 0, then the hashed bytes
sha256(bytes) == <<0>> \o bytes

ChunkedSha256_new ==
    [next_block |-> 0, hasher |-> << >>, pending_blocks |-> << >>]

\* HashMap::insert
MapInsert(m, k, v) ==
    [x \in (DOMAIN m) \cup {k} |-> IF x = k THEN v ELSE m[x]]

\* HashMap::remove of a present key
MapRemove(m, k) == [x \in (DOMAIN m) \ {k} |-> m[x]]

\* the while-let loop of update: feed pending_blocks[next_block] while present
RECURSIVE DrainPending(_)
DrainPending(h) ==
    IF h.next_block \in DOMAIN h.pending_blocks
    THEN DrainPending([next_block |-> h.next_block + 1,
                       hasher |-> h.hasher \o h.pending_blocks[h.next_block],
                       pending_blocks |-> MapRemove(h.pending_blocks, h.next_block)])
    ELSE h

\* update in which a block that arrives in turn does not release the stashed ones
ChunkedSha256_update_nodrain(h, data, block_index) ==
    IF block_index > h.next_block
    THEN [h EXCEPT !.pending_blocks = MapInsert(h.pending_blocks, block_index, data)]
    ELSE [h EXCEPT !.hasher = h.hasher \o data, !.next_block = h.next_block + 1]

ChunkedSha256_update(h, data, block_index) ==
    IF block_index > h.next_block
    THEN [h EXCEPT !.pending_blocks = MapInsert(h.pending_blocks, block_index, data)]
    ELSE DrainPending([h EXCEPT !.hasher = h.hasher \o data,
                                !.next_block = h.next_block + 1])

\* finalize that forgets the stashed blocks when it answers "not ready"
ChunkedSha256_finalize_forgetful(h) ==
    IF DOMAIN h.pending_blocks = {}
    THEN [h |-> [h EXCEPT !.hasher = << >>], out |-> Some(sha256(h.hasher))]
    ELSE [h |-> [h EXCEPT !.pending_blocks = << >>], out |-> None]

\* finalize: <<hasher after the call, returned Option<String>>>;
\* finalize_reset empties the accumulator and leaves next_block alone
ChunkedSha256_finalize(h) ==
    IF DOMAIN h.pending_blocks = {}
    THEN [h |-> [h EXCEPT !.hasher = << >>], out |-> Some(sha256(h.hasher))]
    ELSE [h |-> h, out |-> None]

----------------------------------------------------------------------------
(***************************************************************************)
(* Source files, catalog rows, stored objects                              *)
(***************************************************************************)

Min(a, b) == IF a < b THEN a ELSE b

\* the bytes of source file f when its length is len (byte p differs at each
\* position, so that a reordered or partial copy is told from the original)
Content(f, len) == [p \in 1..len |-> 10 * f + p]

\* source.seek(offset); source.read(payload_size bytes): the bytes actually read
ReadSlice(f, offset, payload_size) ==
    SubSeq(Content(f, disk[f]), offset + 1, Min(offset + payload_size, disk[f]))

\* uuids: of a File row, of a Chunk row
FileUuid(f) == <<"file", f, 0>>
ChunkUuid(f, idx) == <<"chunk", f, idx>>

NoFile ==
    [present |-> FALSE, size |-> 0, sha256 |-> EmptyString, chunks |-> 0,
     mode |-> "CHUNKED", status |-> "PENDING"]

\* (metadata.len() + chunk_size - 1) / chunk_size
chunks_count(len) == (len + ChunkSize - 1) \div ChunkSize

\* the mode the crawl gives a new file
ModeOf(len) == IF len < AggregateMinSize THEN "AGGREGATED" ELSE "CHUNKED"

\* large_file that gives every chunk a payload of chunk_size
NewChunk_full_payload(chunk_index, filesize) ==
    [sha256 |-> EmptyString,
     offset |-> chunk_index * ChunkSize,
     size |-> 0,
     payload_size |-> ChunkSize,
     status |-> "PENDING"]

\* the Chunk row large_file builds for chunk_index
NewChunk(chunk_index, filesize) ==
    [sha256 |-> EmptyString,
     offset |-> chunk_index * ChunkSize,
     size |-> 0,
     payload_size |-> Min(ChunkSize, filesize - chunk_index * ChunkSize),
     status |-> "PENDING"]

\* large_file that writes the row of every chunk_index anew
large_file_replace(rows, filesize, count) ==
    [i \in 0..(count - 1) |-> NewChunk(i, filesize)]

\* large_file: insert a row for every chunk_index of 0..chunks_count-1 that has none
large_file(rows, filesize, count) ==
    [i \in (DOMAIN rows) \cup (0..(count - 1)) |->
        IF i \in DOMAIN rows THEN rows[i] ELSE NewChunk(i, filesize)]

\* files.find_by_path / insert of visit_file: the row is reused when it exists
VisitedFileRow(row, len) ==
    IF row.present THEN row
    ELSE [present |-> TRUE, size |-> len, sha256 |-> EmptyString,
          chunks |-> chunks_count(len), mode |-> ModeOf(len), status |-> "PENDING"]

\* the chunk rows of one file after visit_file: the count and the sizes come
\* from the metadata of the file on disk, also when the File row is reused
VisitedChunkRows(rows, len) == large_file(rows, len, chunks_count(len))

\* chunks.mark_done(uuid, sha256, size)
chunks_mark_done(rows, idx, sha, size) ==
    [rows EXCEPT ![idx] = [@ EXCEPT !.status = "DONE", !.sha256 = sha, !.size = size]]

\* files.mark_done(uuid, sha256)
files_mark_done(row, sha) == [row EXCEPT !.status = "DONE", !.sha256 = sha]

\* the indices of the chunk rows of f that have the given status
IdxWithStatus(rows, status) == {i \in DOMAIN rows : rows[i].status = status}

\* the indices of a result set, in the order of the rows (by idx)
RECURSIVE SortedSeq(_)
SortedSeq(S) ==
    IF S = {} THEN << >>
    ELSE LET m == CHOOSE x \in S : \A y \in S : x <= y
         IN <<m>> \o SortedSeq(S \ {m})

\* the chunks Push::execute asks for, whatever their status
ChunksToPush_any_status(rows) == SortedSeq(DOMAIN rows)

\* chunks.find_by_file_uuid_and_status(file.uuid, "PENDING") of Push::execute
ChunksToPush(rows) == SortedSeq(IdxWithStatus(rows, "PENDING"))

\* find_siblings_by_uuid(uuid) ... filter(status != Done).count() == 0
AllSiblingsDone(rows) == \A i \in DOMAIN rows : rows[i].status = "DONE"

\* ClearChunk::new + Vec<u8>::try_from(&ClearChunk): the serialized envelope
\* (the uuid is skipped by the serialization)
Envelope(f, idx, total, offset, payload) ==
    [version |-> 1,
     metadata |-> [file |-> f, idx |-> idx, total |-> total, offset |-> offset],
     payload |-> payload]

\* Pgp::encrypt / Pgp::decrypt of the encrypt layer of the store
Encrypted(clear) == [pgp |-> clear]
Decrypted(cipher) == cipher.pgp

----------------------------------------------------------------------------
(***************************************************************************)
(* Workers and jobs of the push                                            *)
(***************************************************************************)

IdleWorker ==
    [pc |-> "idle", file |-> 0, idx |-> 0, data |-> << >>, put_ok |-> FALSE,
     all_done |-> FALSE, sha256 |-> EmptyString]

\* a job that finalizes whatever store.put returned
JobAfterPut_ignore_error(put_ok) == "mark_chunk"

\* chunk.push(store, runtime).and_then(|c| c.finalize(..)): what the job does
\* after store.put returned
JobAfterPut(put_ok) == IF put_ok THEN "mark_chunk" ELSE "idle"

\* the per-file hasher Mutex is held from hash.lock() to the return of finalize
HashLocked(f) == \E w \in WorkerIds : worker[w].pc = "mark_file" /\ worker[w].file = f

NoRun ==
    [pendingFiles |-> {}, pendingWithChunks |-> {}, freshFiles |-> {}, listed |-> {}, doneAtListing |-> {},
     submitted |-> {}, puts |-> << >>, encrypt_failed |-> FALSE, failed |-> FALSE, restarted |-> FALSE, partial |-> {},
     stalled |-> {}, killed |-> FALSE, complete |-> FALSE]

\* the chunk keys <<f, idx>> of all rows of the chunks table with a status
KeysWithStatus(ch, status) ==
    {k \in FileIds \X (0..MaxFileSize) :
        k[2] \in DOMAIN ch[k[1]] /\ ch[k[1]][k[2]].status = status}

----------------------------------------------------------------------------
(***************************************************************************)
(* Pull of one file                                                        *)
(***************************************************************************)

NoDest == [exists |-> FALSE, bytes |-> << >>]
NoPull == [pc |-> "idle", file |-> 0, todo |-> {}, fully_pushed |-> FALSE]

\* File::create + set_len(size): a file of `size` zero bytes
SparseFile(size) == [exists |-> TRUE, bytes |-> [p \in 1..size |-> 0]]

\* fs_file.seek(SeekFrom::Start(offset)); fs_file.write_all(payload)
WriteAt(bytes, offset, payload) ==
    LET len == IF offset + Len(payload) > Len(bytes)
               THEN offset + Len(payload) ELSE Len(bytes)
    IN [p \in 1..len |->
          IF p > offset /\ p <= offset + Len(payload) THEN payload[p - offset]
          ELSE IF p <= Len(bytes) THEN bytes[p]
          ELSE 0]

\* the object key the job of process_chunked_file asks the store for:
\* `let uuid = file.uuid; ... store.get(uuid)`
PullObjectKey(f, idx) == FileUuid(f)

\* store.get(uuid), RemoteEncryptedChunk::decrypt, ClearChunk::try_from:
\* the clear chunk, when the object exists and its envelope has version 1
PullFetch(key) ==
    IF key \in DOMAIN store /\ Decrypted(store[key]).version = 1
    THEN Some(Decrypted(store[key]))
    ELSE None


----------------------------------------------------------------------------
(***************************************************************************)
(* controller/crawl.rs with the aggregates and inodes tables               *)
(***************************************************************************)

\* the regular files under the root folder: one in the root, two in a folder
FilePaths == {<<"a">>, <<"d", "b">>, <<"d", "c">>}

\* the folder of a path
ParentOf(path) == SubSeq(path, 1, Len(path) - 1)

\* the orders in which a depth-first walk can meet the files: read_dir gives
\* the entries of a folder in any order, a sub-folder is walked at once
WalkOrders ==
    {o \in [1..Cardinality(FilePaths \cup DOMAIN links) -> FilePaths \cup DOMAIN links] :
        /\ \A i, j \in DOMAIN o : i # j => o[i] # o[j]
        /\ \A i, j, k \in DOMAIN o :
              (i < j /\ j < k /\ ParentOf(o[i]) = ParentOf(o[k]) /\ ParentOf(o[i]) # << >>)
                  => ParentOf(o[j]) = ParentOf(o[i])}

EmptyCatalog == [files |-> << >>, chunks |-> << >>, aggregates |-> << >>, inodes |-> << >>]

\* fuse::fs ROOT: the inode of the root folder
RootInodeId == 0

\* find_inode_by_name_and_parent_id: the ids (positions) of the matching rows
InodeIds(inodes, name, parent_id) ==
    {i \in DOMAIN inodes : inodes[i].name = name /\ inodes[i].parent_id = parent_id}

\* insert_inode that inserts the row twice
insert_inode_twice(inodes, name, parent_id, file) ==
    Append(Append(inodes, [name |-> name, parent_id |-> parent_id, file |-> file]),
           [name |-> name, parent_id |-> parent_id, file |-> file])

\* insert_inode(name, parent_id, file_uuid)
insert_inode(inodes, name, parent_id, file) ==
    Append(inodes, [name |-> name, parent_id |-> parent_id, file |-> file])

\* get_inode_by_name_and_parent_id: the inodes table after the call
get_inode_table(inodes, name, parent_id) ==
    IF InodeIds(inodes, name, parent_id) # {} THEN inodes
    ELSE insert_inode(inodes, name, parent_id, << >>)

\* get_inode_by_name_and_parent_id: the id of the inode returned
get_inode_id(inodes, name, parent_id) ==
    LET t == get_inode_table(inodes, name, parent_id)
    IN CHOOSE i \in InodeIds(t, name, parent_id) :
          \A k \in InodeIds(t, name, parent_id) : i <= k

\* fuse::fs::insert(uuid, path): walk the parent components from the root
\* (get or create), then insert the leaf inode; from component k on
RECURSIVE fuse_fs_insert(_, _, _, _)
fuse_fs_insert(inodes, path, k, parent_id) ==
    IF k = Len(path)
    THEN insert_inode(inodes, path[k], parent_id, path)
    ELSE fuse_fs_insert(get_inode_table(inodes, path[k], parent_id), path, k + 1,
                        get_inode_id(inodes, path[k], parent_id))

\* the mode visit_file gives a new file
CrawlMode(len, aggregate_min_size) ==
    IF len < aggregate_min_size THEN "AGGREGATED" ELSE "CHUNKED"

\* the chunk rows of a file of the catalog (none when it has no row)
ChunkRowsOf(c, key) == IF key \in DOMAIN c.chunks THEN c.chunks[key] ELSE << >>

\* new_aggregate: the File row `<uuid>.tar` and its single Chunk row
new_aggregate(c, agg_path) ==
    [c EXCEPT
        !.files = MapInsert(@, agg_path,
                            [present |-> TRUE, size |-> 0, sha256 |-> EmptyString,
                             chunks |-> 1, mode |-> "AGGREGATE", status |-> "PENDING"]),
        !.chunks = MapInsert(@, agg_path,
                             (0 :> [sha256 |-> EmptyString, offset |-> 0, size |-> 0,
                                    payload_size |-> 0, status |-> "PENDING"]))]

\* get_aggregate_path that opens a group only when none is open
OpensGroup_first_only(current, filesize, aggregate_size) == ~current.some

\* get_aggregate_path: TRUE when a new group is opened for a file of filesize
OpensGroup(current, filesize, aggregate_size) ==
    \/ ~current.some
    \/ current.value.size + filesize > aggregate_size

\* small_file that never finds the link of a file
HasAggregateLink_never(c, path) == FALSE

\* small_file: aggregates.find_by_file_path(db_file.path).is_some()
HasAggregateLink(c, path) ==
    \E i \in DOMAIN c.aggregates : c.aggregates[i].file_path = path

\* the path `<uuid>.tar` of the n-th aggregate File row
TarPath(n) == <<"tar", n>>

\* get_aggregate_path(filesize): the catalog, the current aggregate and the
\* count of uuids drawn for `.tar` paths after the call
get_aggregate_path(c, current, next_tar, filesize, aggregate_size) ==
    IF OpensGroup(current, filesize, aggregate_size)
    THEN [cat |-> new_aggregate(c, TarPath(next_tar)),
          current |-> Some([path |-> TarPath(next_tar), size |-> filesize]),
          next_tar |-> next_tar + 1]
    ELSE [cat |-> c,
          current |-> Some([path |-> current.value.path,
                            size |-> current.value.size + filesize]),
          next_tar |-> next_tar]

\* small_file(db_file, filesize)
small_file(c, current, next_tar, path, filesize, aggregate_size) ==
    IF HasAggregateLink(c, path)
    THEN [cat |-> c, current |-> current, next_tar |-> next_tar]
    ELSE LET g == get_aggregate_path(c, current, next_tar, filesize, aggregate_size)
         IN [g EXCEPT !.cat.aggregates =
                Append(@, [aggregate_path |-> g.current.value.path, file_path |-> path])]

\* the File row of visit_file: found by path, else inserted together with
\* the inodes of its path
CrawlFileRow(c, path, len, aggregate_min_size) ==
    IF path \in DOMAIN c.files THEN c
    ELSE [c EXCEPT
            !.files = MapInsert(@, path,
                                [present |-> TRUE, size |-> len, sha256 |-> EmptyString,
                                 chunks |-> chunks_count(len),
                                 mode |-> CrawlMode(len, aggregate_min_size),
                                 status |-> "PENDING"]),
            !.inodes = fuse_fs_insert(@, path, 1, RootInodeId)]

\* the chunks table after large_file(db_file, filesize, chunks_count)
CrawlLargeFile(c, path, filesize, count) ==
    IF large_file(ChunkRowsOf(c, path), filesize, count) = << >> THEN c
    ELSE [c EXCEPT !.chunks = MapInsert(@, path,
                                 large_file(ChunkRowsOf(c, path), filesize, count))]

\* visit_file(path, metadata)
visit_file(c, current, next_tar, path, len, aggregate_min_size, aggregate_size) ==
    LET c1 == CrawlFileRow(c, path, len, aggregate_min_size)
    IN IF len >= aggregate_min_size
       THEN [cat |-> CrawlLargeFile(c1, path, len, chunks_count(len)),
             current |-> current, next_tar |-> next_tar]
       ELSE small_file(c1, current, next_tar, path, len, aggregate_size)

\* the symbolic link of the root folder
LinkPath == <<"l">>

\* fs::metadata(path) follows symbolic links: the file or folder a path leads
\* to; the link leads to the file a or to the folder d
Resolve(path) ==
    IF path[1] # LinkPath[1] THEN path
    ELSE IF Len(path) = 1 THEN <<"a">> ELSE <<"d">> \o Tail(path)

\* visit_path: what fs::metadata(path) reports for an entry of the walk
EntryKind(path) ==
    IF path \in DOMAIN links
    THEN CASE links[path] = "file" -> "file"
           [] links[path] = "dir" -> "dir"
           [] OTHER -> "error"
    ELSE "file"

\* metadata.len() of an entry that is a file
MetadataLen(path) == tree[Resolve(path)]

\* visit_file: ignored_files.is_match(path), for globs on the file name
IsIgnored(path, ignored) == path[Len(path)] \in ignored

\* fuse::fs::insert that fails at the insert of the leaf inode: the inodes of
\* the parent components are in the table
RECURSIVE fuse_fs_insert_parents(_, _, _, _)
fuse_fs_insert_parents(inodes, path, k, parent_id) ==
    IF k = Len(path)
    THEN inodes
    ELSE fuse_fs_insert_parents(get_inode_table(inodes, path[k], parent_id), path, k + 1,
                                get_inode_id(inodes, path[k], parent_id))

\* new_aggregate that fails at the insert of the Chunk row: the File row
\* `<uuid>.tar` is in the table
new_aggregate_file_only(c, agg_path) ==
    [c EXCEPT
        !.files = MapInsert(@, agg_path,
                            [present |-> TRUE, size |-> 0, sha256 |-> EmptyString,
                             chunks |-> 1, mode |-> "AGGREGATE", status |-> "PENDING"])]

\* the operations of visit_file that can fail for a file: <<operation, chunk_index>>
FaultPoints(c, current, path, len, aggregate_min_size, aggregate_size) ==
    {<<"file_row", 0>>}
    \cup (IF path \in DOMAIN c.files THEN {}
          ELSE {<<"inode_leaf", 0>>}
               \cup (IF Len(path) > 1 THEN {<<"inode_dir", 0>>} ELSE {}))
    \cup (IF len >= aggregate_min_size
          THEN {<<"chunk", i>> : i \in 0..(chunks_count(len) - 1)}
          ELSE {<<"aggregate_find", 0>>}
               \cup (IF HasAggregateLink(c, path) THEN {}
                     ELSE {<<"link_insert", 0>>}
                          \cup (IF OpensGroup(current, len, aggregate_size)
                                THEN {<<"aggregate_file", 0>>, <<"aggregate_chunk", 0>>}
                                ELSE {})))

\* the errors fuse::fs::insert returns: visit_file logs them and goes on
LoggedOnly == {"inode_dir", "inode_leaf"}

\* visit_file(path, metadata) with one failing operation: what is in the
\* catalog when the error is returned (or, for fuse::fs::insert, logged)
visit_file_error(c, current, next_tar, path, len, aggregate_min_size, aggregate_size, at, idx) ==
    LET c1 == CrawlFileRow(c, path, len, aggregate_min_size)
        same == [cat |-> c1, current |-> current, next_tar |-> next_tar]
    IN CASE at = "file_row" -> [same EXCEPT !.cat = c]
         [] at = "inode_dir" ->
                visit_file([c1 EXCEPT !.inodes = c.inodes], current, next_tar, path, len,
                           aggregate_min_size, aggregate_size)
         [] at = "inode_leaf" ->
                visit_file([c1 EXCEPT !.inodes = fuse_fs_insert_parents(c.inodes, path, 1,
                                                                        RootInodeId)],
                           current, next_tar, path, len, aggregate_min_size, aggregate_size)
         [] at = "chunk" -> [same EXCEPT !.cat = CrawlLargeFile(c1, path, len, idx)]
         [] at = "aggregate_find" -> same
         [] at = "aggregate_file" -> same
         [] at = "aggregate_chunk" ->
                [same EXCEPT !.cat = new_aggregate_file_only(c1, TarPath(next_tar)),
                             !.next_tar = next_tar + 1]
         [] at = "link_insert" ->
                get_aggregate_path(c1, current, next_tar, len, aggregate_size)

\* visit_dir after an entry failed: the entries left to visit
RestAfterError_abort(order) == << >>

\* visit_dir logs the error of an entry and goes on with the next one
RestAfterError(order) == Tail(order)

\* the entries of the folder the symbolic link leads to, seen through the link
LinkChildren == {LinkPath \o Tail(q) : q \in {f \in FilePaths : Len(f) = 2}}

\* the entries of the walk that lie in the folder of path
Siblings(order, path) ==
    {order[i] : i \in {k \in DOMAIN order : ParentOf(order[k]) = ParentOf(path)}}

\* the sequence without the entries of a set
RECURSIVE Without(_, _)
Without(order, drop) ==
    IF order = << >> THEN << >>
    ELSE IF Head(order) \in drop THEN Without(Tail(order), drop)
         ELSE <<Head(order)>> \o Without(Tail(order), drop)

\* visit_file meets a file whose length is not the size of its File row
ResizedSince(c, path, len) ==
    IF path \in DOMAIN c.files /\ c.files[path].size # len THEN {path} ELSE {}

\* no crawl has run: the Crawl of crawl::execute is built per run
NoCrawl ==
    [pc |-> "idle", order |-> << >>, current_aggregate |-> None,
     aggregate_min_size |-> 0, aggregate_size |-> ChunkSize,
     runs |-> 0, next_tar |-> 0, changes |-> 0,
     before |-> EmptyCatalog, last_tree |-> None, repeat |-> FALSE, resized |-> {},
     ignored |-> {}, faults |-> 0, faulted |-> {}]

\* no callback of the mounted view was served
NoFuse == [op |-> "none", ino |-> 1, id |-> 0, name |-> "", offset |-> 0, size |-> 0,
           fault |-> "none", reply |-> [kind |-> "none"], replies |-> 0, known |-> {1}]

\* no object was got through the cache layer
NoCache == [files |-> << >>, delegate |-> << >>, content |-> << >>,
            op |-> "none", uuid |-> 0, result |-> None, delegate_gets |-> 0,
            read_failed |-> FALSE, write_failed |-> FALSE,
            delegate_puts |-> 0, delegate_result |-> None,
            files_before |-> << >>, got_before |-> << >>, got |-> << >>]

NoCodec == [op |-> "none", chunk |-> << >>, bytes |-> << >>, outcome |-> "none",
            decoded |-> << >>]
NoProc == [pc |-> "none", subcommand |-> "none", todo |-> << >>, failed |-> "none",
           ran |-> FALSE, sub_ok |-> FALSE, result |-> "none", code |-> 0]

\* the envelope codec, the process start and the parallel pushes take no part
MiscUnused ==
    /\ codec = NoCodec
    /\ proc = NoProc
    /\ pushers = << >>

\* the mounted view, the inode repository and the cache layer take no part
ViewUnused ==
    /\ fuse = NoFuse
    /\ MiscUnused
    /\ inodeCalls = << >>
    /\ cache = NoCache

\* the crawl process takes no part
CrawlUnused ==
    /\ tree = << >>
    /\ cat = EmptyCatalog
    /\ crawl = NoCrawl
    /\ links = << >>

\* File::open(&filepath).is_ok() that never finds the destination
FileOpenOk_never(d) == FALSE

\* File::open(&filepath).is_ok() of create_file (a destination that exists
\* can be opened for reading)
FileOpenOk(d) == d.exists

\* the messages of the writer channel
Message_Done == [kind |-> "Done", offset |-> 0, payload |-> << >>]
Message_Chunk(offset, payload) == [kind |-> "Chunk", offset |-> offset, payload |-> payload]
NoChunkMsg == [kind |-> "None", offset |-> 0, payload |-> << >>]

\* the thread of Pull::execute before it runs
NoPuller ==
    [pc |-> "none", file |-> 0, todo |-> << >>, dest0 |-> NoDest, gets |-> 0,
     sent |-> 0, done_sent |-> FALSE, jobs_at_done |-> TRUE]

NoWriter == [pc |-> "none", written |-> << >>]

\* no pull of this kind is running (the specifications that do not use one)
PullerUnused ==
    /\ puller = NoPuller
    /\ wchan = << >>
    /\ writer = NoWriter
    /\ pullJob = << >>

----------------------------------------------------------------------------
(***************************************************************************)
(* thread_pool.rs: ThreadPool, its sync_channel and its workers            *)
(***************************************************************************)

NoMsg == [kind |-> "None", job |-> 0]
Message_End == [kind |-> "End", job |-> 0]
Message_Job(j) == [kind |-> "Job", job |-> j]

NewJob == [state |-> "new", runs |-> 0, finished |-> FALSE, panicked |-> FALSE]

\* ThreadPool::new(workers, max_queue_size) (+ with_callback when callback)
ThreadPool_new(workers, max_queue_size, callback) ==
    [workers |-> workers, max_queue_size |-> max_queue_size, callback |-> callback,
     pc |-> "open", sending |-> NoMsg, next_job |-> 1, ends_sent |-> 0, joined |-> 0,
     callback_calls |-> 0]

\* Worker::new: the thread starts in the loop, at receiver.lock().recv()
Worker_new == [pc |-> "recv", job |-> 0, ends |-> 0]

\* no pool exists (the specifications that do not use one)
PoolUnused ==
    /\ tp = [ThreadPool_new(1, 0, FALSE) EXCEPT !.pc = "none"]
    /\ tpQueue = << >>
    /\ tpWorker = << >>
    /\ tpJobs = << >>

\* the threads that hold a clone of the receiver: while there is one the
\* channel is connected
Receivers(ws) == {w \in DOMAIN ws : ws[w].pc \in {"recv", "job"}}

\* a drop that sends one End less than there are workers
EndTokens_one_short(workers) == workers - 1

\* `for _ in 0..self.workers { sender.send(Message::End) }`: the End tokens of drop
EndTokens(workers) == workers

\* a drop that runs the callback without joining the workers
DropStepAfterEnds_no_join(workers) == "drop_callback"

\* drop, after the End tokens: worker_threads.iter_mut().for_each(join)
DropStepAfterEnds(workers) == "drop_join"

\* the pool after sender.send(msg) returned Ok
AfterSent(t) ==
    IF t.sending.kind = "End"
    THEN [t EXCEPT !.sending = NoMsg,
                   !.ends_sent = @ + 1,
                   !.pc = IF t.ends_sent + 1 >= EndTokens(t.workers)
                          THEN DropStepAfterEnds(t.workers) ELSE @]
    ELSE [t EXCEPT !.sending = NoMsg]

\* the jobs after sender.send(msg) returned Ok: execute returns Ok(())
JobsAfterSent(jobs, msg) ==
    IF msg.kind = "Job" THEN [jobs EXCEPT ![msg.job].state = "accepted"] ELSE jobs

\* ThreadPool::execute(job), up to the call of sender.send(Message::Job(job))
ThreadPool_execute(j) ==
    /\ tp.pc = "open"
    /\ tp.sending = NoMsg
    /\ j = tp.next_job
    /\ j \in DOMAIN tpJobs
    /\ tp' = [tp EXCEPT !.sending = Message_Job(j), !.next_job = j + 1]
    /\ tpJobs' = [tpJobs EXCEPT ![j].state = "sending"]
    /\ UNCHANGED <<tpQueue, tpWorker>>

\* sender.send returns Ok: the message went into the buffer of the channel
ThreadPool_send_buffered ==
    /\ tp.sending # NoMsg
    /\ Receivers(tpWorker) # {}
    /\ Len(tpQueue) < tp.max_queue_size
    /\ tpQueue' = Append(tpQueue, tp.sending)
    /\ tp' = AfterSent(tp)
    /\ tpJobs' = JobsAfterSent(tpJobs, tp.sending)
    /\ UNCHANGED tpWorker

\* sender.send returns Err, every receiver being gone: execute bails,
\* drop panics in send(Message::End).unwrap()
ThreadPool_send_disconnected ==
    /\ tp.sending # NoMsg
    /\ Receivers(tpWorker) = {}
    /\ tp' = [tp EXCEPT !.sending = NoMsg,
                        !.pc = IF tp.sending.kind = "End" THEN "panicked" ELSE @]
    /\ tpJobs' = IF tp.sending.kind = "Job"
                 THEN [tpJobs EXCEPT ![tp.sending.job].state = "refused"]
                 ELSE tpJobs
    /\ UNCHANGED <<tpQueue, tpWorker>>

\* the worker loop: receiver.lock().unwrap().recv().unwrap(), then the match;
\* a rendezvous channel hands the message of the blocked sender over
Worker_recv(w) ==
    /\ w \in DOMAIN tpWorker
    /\ tpWorker[w].pc = "recv"
    /\ \/ tpQueue # << >>
       \/ tp.max_queue_size = 0 /\ tp.sending # NoMsg
    /\ LET buffered == tpQueue # << >>
           msg == IF buffered THEN Head(tpQueue) ELSE tp.sending
           w1 == IF msg.kind = "End"
                 THEN [tpWorker EXCEPT ![w].pc = "exited", ![w].ends = @ + 1]
                 ELSE [tpWorker EXCEPT ![w].pc = "job", ![w].job = msg.job]
       IN /\ tpWorker' = w1
          /\ tpQueue' = IF buffered /\ Receivers(w1) # {} THEN Tail(tpQueue) ELSE << >>
          /\ tp' = IF buffered THEN tp ELSE AfterSent(tp)
          /\ tpJobs' = IF buffered THEN tpJobs ELSE JobsAfterSent(tpJobs, msg)

\* job() returns: back to the head of the loop
Worker_job_returns(w) ==
    /\ w \in DOMAIN tpWorker
    /\ tpWorker[w].pc = "job"
    /\ tpJobs' = [tpJobs EXCEPT ![tpWorker[w].job].runs = @ + 1,
                                ![tpWorker[w].job].finished = TRUE]
    /\ tpWorker' = [tpWorker EXCEPT ![w].pc = "recv", ![w].job = 0]
    /\ UNCHANGED <<tp, tpQueue>>

\* job() panics: the worker thread unwinds and ends (nothing catches the
\* panic), its clone of the receiver is dropped; the messages of a channel
\* without receiver are dropped
Worker_job_panics(w) ==
    /\ w \in DOMAIN tpWorker
    /\ tpWorker[w].pc = "job"
    /\ tpJobs' = [tpJobs EXCEPT ![tpWorker[w].job].runs = @ + 1,
                                ![tpWorker[w].job].panicked = TRUE]
    /\ LET w1 == [tpWorker EXCEPT ![w].pc = "panicked"]
       IN /\ tpWorker' = w1
          /\ tpQueue' = IF Receivers(w1) = {} THEN << >> ELSE tpQueue
    /\ UNCHANGED tp

\* Drop for ThreadPool begins (the owner has returned from its last execute)
ThreadPool_drop ==
    /\ tp.pc = "open"
    /\ tp.sending = NoMsg
    /\ tp' = [tp EXCEPT !.pc = IF EndTokens(tp.workers) <= 0
                               THEN DropStepAfterEnds(tp.workers) ELSE "drop_send"]
    /\ UNCHANGED <<tpQueue, tpWorker, tpJobs>>

\* drop: self.sender.send(Message::End), up to the call of send
ThreadPool_drop_send_end ==
    /\ tp.pc = "drop_send"
    /\ tp.sending = NoMsg
    /\ tp' = [tp EXCEPT !.sending = Message_End]
    /\ UNCHANGED <<tpQueue, tpWorker, tpJobs>>

\* drop: t.join().unwrap() on the next worker thread; join returns Err for a
\* thread that panicked and unwrap panics
ThreadPool_drop_join ==
    /\ tp.pc = "drop_join"
    /\ LET w == tp.joined + 1
       IN IF w > tp.workers
          THEN tp' = [tp EXCEPT !.pc = "drop_callback"]
          ELSE /\ tpWorker[w].pc \in {"exited", "panicked"}
               /\ tp' = IF tpWorker[w].pc = "panicked"
                        THEN [tp EXCEPT !.pc = "panicked"]
                        ELSE [tp EXCEPT !.joined = w]
    /\ UNCHANGED <<tpQueue, tpWorker, tpJobs>>

\* drop: `if let Some(callback) = &mut self.callback { callback() }`, return
ThreadPool_drop_callback ==
    /\ tp.pc = "drop_callback"
    /\ tp' = [tp EXCEPT !.pc = "dropped",
                        !.callback_calls = IF tp.callback THEN @ + 1 ELSE @]
    /\ UNCHANGED <<tpQueue, tpWorker, tpJobs>>

----------------------------------------------------------------------------
(***************************************************************************)
(* Specification Spec: the source tree, crawl runs, push runs (with their  *)
(* worker jobs, interrupted at any point and restarted) on one catalog and *)
(* one store.  The pool is the default one (queue_size 0, a rendezvous     *)
(* channel): execute hands the job to a worker that is waiting for one.    *)
(* The processes (crawl, push, pull) run one after the other; source files *)
(* are only appended to; a behaviour ends with at most one pull.           *)
(***************************************************************************)

Init ==
    /\ hs = ChunkedSha256_new
    /\ calls = << >>
    /\ ret = None
    /\ disk \in [FileIds -> 0..MaxFileSize]
    /\ files = [f \in FileIds |-> NoFile]
    /\ chunks = [f \in FileIds |-> << >>]
    /\ store = << >>
    /\ ppc = "idle"
    /\ filesTodo = << >>
    /\ chunksTodo = << >>
    /\ hashes = << >>
    /\ worker = [w \in WorkerIds |-> IdleWorker]
    /\ dest = [f \in FileIds |-> NoDest]
    /\ pull = NoPull
    /\ run = NoRun
    /\ markDoneCalls = [f \in FileIds |-> 0]
    /\ doneFresh = {}
    /\ PoolUnused
    /\ PullerUnused
    /\ CrawlUnused
    /\ ViewUnused

\* the source file grows between two runs (content is appended)
DiskGrow(f) ==
    /\ ppc = "idle"
    /\ pull.pc = "idle"
    /\ disk[f] < MaxFileSize
    /\ disk' = [disk EXCEPT ![f] = @ + 1]
    /\ UNCHANGED <<hashVars, poolVars, pullerVars, crawlVars, viewVars, pullVars, catalogVars, store, pushVars, obsVars>>

\* Crawl::visit_file on file f (a crawl run is a series of these)
CrawlVisitFile(f) ==
    /\ ppc = "idle"
    /\ pull.pc = "idle"
    /\ files' = [files EXCEPT ![f] = VisitedFileRow(@, disk[f])]
    /\ chunks' = [chunks EXCEPT ![f] =
                    IF disk[f] >= AggregateMinSize
                    THEN VisitedChunkRows(@, disk[f])
                    ELSE @]
    /\ UNCHANGED <<hashVars, poolVars, pullerVars, crawlVars, viewVars, pullVars, disk, store, pushVars, obsVars>>

\* Push::execute up to the listing: visit_dir over the root folder, then
\* files.list_by_status("PENDING")
PushStart ==
    /\ ppc = "idle"
    /\ pull.pc = "idle"
    /\ LET files1 == [f \in FileIds |-> VisitedFileRow(files[f], disk[f])]
           chunks1 == [f \in FileIds |-> VisitedChunkRows(chunks[f], disk[f])]
           pending == {f \in FileIds : files1[f].present /\ files1[f].status = "PENDING"}
       IN /\ files' = files1
          /\ chunks' = chunks1
          /\ filesTodo' = SortedSeq(pending)
          /\ run' = [pendingFiles |-> {f \in FileIds : files[f].present
                                                        /\ files[f].status = "PENDING"},
                     pendingWithChunks |-> {f \in pending : DOMAIN chunks1[f] # {}},
                     freshFiles |-> {f \in pending : IdxWithStatus(chunks1[f], "DONE") = {}},
                     listed |-> {k \in KeysWithStatus(chunks1, "PENDING") : k[1] \in pending},
                     doneAtListing |-> KeysWithStatus(chunks1, "DONE"),
                     submitted |-> {},
                     puts |-> << >>,
                     encrypt_failed |-> FALSE,
                     failed |-> FALSE,
                     restarted |-> run.killed,
                     partial |-> IF run.killed THEN run.partial ELSE {},
                     stalled |-> IF run.killed THEN run.stalled ELSE {},
                     killed |-> FALSE,
                     complete |-> FALSE]
    /\ chunksTodo' = << >>
    /\ hashes' = << >>
    /\ ppc' = "files"
    /\ UNCHANGED <<hashVars, poolVars, pullerVars, crawlVars, viewVars, pullVars, disk, store, worker, markDoneCalls, doneFresh>>

\* Push::execute, next iteration of `for file in files`:
\* chunks.find_by_file_uuid_and_status(file.uuid, "PENDING")
PushNextFile ==
    /\ ppc = "files"
    /\ chunksTodo = << >>
    /\ filesTodo # << >>
    /\ LET f == Head(filesTodo)
           idxs == ChunksToPush(chunks[f])
       IN chunksTodo' = [k \in 1..Len(idxs) |-> <<f, idxs[k]>>]
    /\ filesTodo' = Tail(filesTodo)
    /\ UNCHANGED <<hashVars, poolVars, pullerVars, crawlVars, viewVars, pullVars, disk, catalogVars, store, ppc, hashes, worker, obsVars>>

\* Push::process_chunk: read the slice, create the file's hasher on first use,
\* thread_pool.execute(job) received by the waiting worker w
PushProcessChunk(w) ==
    /\ ppc = "files"
    /\ chunksTodo # << >>
    /\ worker[w].pc = "idle"
    /\ LET f == Head(chunksTodo)[1]
           idx == Head(chunksTodo)[2]
           row == chunks[f][idx]
           data == ReadSlice(f, row.offset, row.payload_size)
       IN IF Len(data) # row.payload_size
          THEN UNCHANGED <<hashes, worker, run>>
          ELSE /\ hashes' = IF f \in DOMAIN hashes THEN hashes
                            ELSE MapInsert(hashes, f, ChunkedSha256_new)
               /\ worker' = [worker EXCEPT ![w] =
                                [pc |-> "push", file |-> f, idx |-> idx, data |-> data,
                                 put_ok |-> FALSE, all_done |-> FALSE,
                                 sha256 |-> EmptyString]]
               /\ run' = [run EXCEPT !.submitted = @ \cup {<<f, idx>>}]
    /\ chunksTodo' = Tail(chunksTodo)
    /\ UNCHANGED <<hashVars, poolVars, pullerVars, crawlVars, viewVars, pullVars, disk, catalogVars, store, ppc, filesTodo, markDoneCalls,
                   doneFresh>>

CountPut(puts, k) ==
    MapInsert(puts, k, IF k \in DOMAIN puts THEN puts[k] + 1 ELSE 1)

\* the job, first part: chunk.encrypt(&pgp), then ClearChunk::push =
\* store.put(self.uuid, serialized envelope) through the encrypt layer
JobPush(w) ==
    /\ worker[w].pc = "push"
    /\ LET f == worker[w].file
           idx == worker[w].idx
           k == <<f, idx>>
           bytes == Envelope(f, idx, files[f].chunks, chunks[f][idx].offset, worker[w].data)
       IN \/ \* encryption fails: the job logs and returns
             /\ worker' = [worker EXCEPT ![w] = IdleWorker]
             /\ run' = [run EXCEPT !.failed = TRUE, !.encrypt_failed = TRUE]
             /\ store' = store
          \/ \* store.put is called and fails (FALSE) or succeeds (TRUE)
             \E ok \in BOOLEAN :
                /\ worker' = [worker EXCEPT ![w] =
                                 IF JobAfterPut(ok) = "idle" THEN IdleWorker
                                 ELSE [@ EXCEPT !.pc = JobAfterPut(ok), !.put_ok = ok]]
                /\ run' = [run EXCEPT !.failed = @ \/ ~ok, !.puts = CountPut(@, k)]
                /\ store' = IF ok THEN MapInsert(store, ChunkUuid(f, idx), Encrypted(bytes))
                            ELSE store
    /\ UNCHANGED <<hashVars, poolVars, pullerVars, crawlVars, viewVars, pullVars, disk, catalogVars, ppc, filesTodo, chunksTodo, hashes,
                   markDoneCalls, doneFresh>>

\* finalize: chunks_repository.mark_done(uuid, sha256(payload), payload.len())
JobMarkChunkDone(w) ==
    /\ worker[w].pc = "mark_chunk"
    /\ chunks' = [chunks EXCEPT ![worker[w].file] =
                    chunks_mark_done(@, worker[w].idx, sha256(worker[w].data),
                                     Len(worker[w].data))]
    /\ worker' = [worker EXCEPT ![w].pc = "siblings"]
    /\ UNCHANGED <<hashVars, poolVars, pullerVars, crawlVars, viewVars, pullVars, disk, files, store, ppc, filesTodo, chunksTodo, hashes, obsVars>>

\* finalize: chunks_repository.find_siblings_by_uuid(uuid)
JobFindSiblings(w) ==
    /\ worker[w].pc = "siblings"
    /\ worker' = [worker EXCEPT ![w].pc = "hash",
                                ![w].all_done = AllSiblingsDone(chunks[worker[w].file])]
    /\ UNCHANGED <<hashVars, poolVars, pullerVars, crawlVars, viewVars, pullVars, disk, catalogVars, store, ppc, filesTodo, chunksTodo, hashes,
                   obsVars>>

\* finalize: hash.lock(); hash.update(payload, idx); when the siblings read
\* before were all Done, hash.finalize() (None gives the empty string)
JobHash(w) ==
    /\ worker[w].pc = "hash"
    /\ ~HashLocked(worker[w].file)
    /\ LET f == worker[w].file
           h1 == ChunkedSha256_update(hashes[f], worker[w].data, worker[w].idx)
           fin == ChunkedSha256_finalize(h1)
       IN IF worker[w].all_done
          THEN /\ hashes' = [hashes EXCEPT ![f] = fin.h]
               /\ worker' = [worker EXCEPT ![w].pc = "mark_file",
                                           ![w].sha256 = IF fin.out.some
                                                         THEN fin.out.value
                                                         ELSE EmptyString]
          ELSE /\ hashes' = [hashes EXCEPT ![f] = h1]
               /\ worker' = [worker EXCEPT ![w] = IdleWorker]
    /\ UNCHANGED <<hashVars, poolVars, pullerVars, crawlVars, viewVars, pullVars, disk, catalogVars, store, ppc, filesTodo, chunksTodo, obsVars>>

\* finalize: files_repository.mark_done(file_uuid, sha256), return (unlock)
JobMarkFileDone(w) ==
    /\ worker[w].pc = "mark_file"
    /\ LET f == worker[w].file
       IN /\ files' = [files EXCEPT ![f] = files_mark_done(@, worker[w].sha256)]
          /\ markDoneCalls' = [markDoneCalls EXCEPT ![f] = @ + 1]
          /\ doneFresh' = IF f \in run.freshFiles THEN doneFresh \cup {f} ELSE doneFresh
    /\ worker' = [worker EXCEPT ![w] = IdleWorker]
    /\ UNCHANGED <<hashVars, poolVars, pullerVars, crawlVars, viewVars, pullVars, disk, chunks, store, ppc, filesTodo, chunksTodo, hashes, run>>

\* Push::execute returns and the pool is dropped: every job has finished
PushFinish ==
    /\ ppc = "files"
    /\ filesTodo = << >>
    /\ chunksTodo = << >>
    /\ \A w \in WorkerIds : worker[w].pc = "idle"
    /\ ppc' = "idle"
    /\ run' = [run EXCEPT !.complete = TRUE]
    /\ UNCHANGED <<hashVars, poolVars, pullerVars, crawlVars, viewVars, pullVars, disk, catalogVars, store, filesTodo, chunksTodo, hashes,
                   worker, markDoneCalls, doneFresh>>

\* files of which some chunk rows, but not all, are Done
PartialFiles == {f \in FileIds : /\ files[f].present
                                 /\ files[f].status = "PENDING"
                                 /\ IdxWithStatus(chunks[f], "DONE") # {}
                                 /\ IdxWithStatus(chunks[f], "PENDING") # {}}

\* Pending files with chunk rows that are all Done
StalledFiles == {f \in FileIds : /\ files[f].present
                                 /\ files[f].status = "PENDING"
                                 /\ DOMAIN chunks[f] # {}
                                 /\ AllSiblingsDone(chunks[f])}

\* the push process is terminated: its threads, queue and hashers are gone,
\* the catalog and the store stay as they are
Kill ==
    /\ ppc = "files"
    /\ ppc' = "idle"
    /\ filesTodo' = << >>
    /\ chunksTodo' = << >>
    /\ hashes' = << >>
    /\ worker' = [w \in WorkerIds |-> IdleWorker]
    /\ run' = [run EXCEPT !.killed = TRUE, !.partial = PartialFiles,
                          !.stalled = StalledFiles]
    /\ UNCHANGED <<hashVars, poolVars, pullerVars, crawlVars, viewVars, pullVars, disk, catalogVars, store, markDoneCalls, doneFresh>>

\* Pull::execute up to the submission of the jobs: find_by_path, create_file
\* (fails when the destination exists), one job per chunk row of the file
PullStart(f) ==
    /\ ppc = "idle"
    /\ pull.pc = "idle"
    /\ files[f].present
    /\ ~dest[f].exists
    /\ dest' = [dest EXCEPT ![f] = SparseFile(files[f].size)]
    /\ pull' = [pc |-> "jobs", file |-> f, todo |-> DOMAIN chunks[f],
                fully_pushed |-> /\ files[f].status = "DONE"
                                 /\ AllSiblingsDone(chunks[f])
                                 /\ disk[f] = files[f].size]
    /\ UNCHANGED <<hashVars, poolVars, pullerVars, crawlVars, viewVars, disk, catalogVars, store, pushVars, obsVars>>

\* the job of chunk idx (the jobs run in any order) and the writer thread
\* receiving its message: get, decrypt, decode, seek to metadata.offset, write
PullChunk(idx) ==
    /\ pull.pc = "jobs"
    /\ idx \in pull.todo
    /\ LET f == pull.file
           got == PullFetch(PullObjectKey(f, idx))
       IN dest' = IF got.some
                  THEN [dest EXCEPT ![f].bytes =
                            WriteAt(@, got.value.metadata.offset, got.value.payload)]
                  ELSE dest
    /\ pull' = [pull EXCEPT !.todo = @ \ {idx}]
    /\ UNCHANGED <<hashVars, poolVars, pullerVars, crawlVars, viewVars, disk, catalogVars, store, pushVars, obsVars>>

\* the pool is dropped, the callback sends Done, the writer is joined
PullFinish ==
    /\ pull.pc = "jobs"
    /\ pull.todo = {}
    /\ pull' = [pull EXCEPT !.pc = "done"]
    /\ UNCHANGED <<hashVars, poolVars, pullerVars, crawlVars, viewVars, disk, catalogVars, store, pushVars, dest, obsVars>>

Next ==
    \/ \E f \in FileIds : DiskGrow(f)
    \/ \E f \in FileIds : CrawlVisitFile(f)
    \/ PushStart
    \/ PushNextFile
    \/ \E w \in WorkerIds : PushProcessChunk(w)
    \/ \E w \in WorkerIds : JobPush(w)
    \/ \E w \in WorkerIds : JobMarkChunkDone(w)
    \/ \E w \in WorkerIds : JobFindSiblings(w)
    \/ \E w \in WorkerIds : JobHash(w)
    \/ \E w \in WorkerIds : JobMarkFileDone(w)
    \/ PushFinish
    \/ Kill
    \/ \E f \in FileIds : PullStart(f)
    \/ \E idx \in 0..MaxFileSize : PullChunk(idx)
    \/ PullFinish

Spec == Init /\ [][Next]_vars

----------------------------------------------------------------------------
(***************************************************************************)
(* Specification SpecHash: any series of update and finalize calls on one  *)
(* ChunkedSha256.                                                          *)
(***************************************************************************)

HashInit ==
    /\ hs = ChunkedSha256_new
    /\ calls = << >>
    /\ ret = None
    /\ disk = [f \in FileIds |-> 0]
    /\ files = [f \in FileIds |-> NoFile]
    /\ chunks = [f \in FileIds |-> << >>]
    /\ store = << >>
    /\ ppc = "idle"
    /\ filesTodo = << >>
    /\ chunksTodo = << >>
    /\ hashes = << >>
    /\ worker = [w \in WorkerIds |-> IdleWorker]
    /\ dest = [f \in FileIds |-> NoDest]
    /\ pull = NoPull
    /\ run = NoRun
    /\ markDoneCalls = [f \in FileIds |-> 0]
    /\ doneFresh = {}
    /\ PoolUnused
    /\ PullerUnused
    /\ CrawlUnused
    /\ ViewUnused

HashUpdate(idx, data) ==
    /\ Len(calls) < MaxCalls
    /\ hs' = ChunkedSha256_update(hs, data, idx)
    /\ calls' = Append(calls, [op |-> "update", idx |-> idx, data |-> data, out |-> None])
    /\ ret' = ret
    /\ UNCHANGED <<poolVars, pullerVars, crawlVars, viewVars, disk, catalogVars, store, pushVars, pullVars, obsVars>>

HashFinalize ==
    /\ Len(calls) < MaxCalls
    /\ hs' = ChunkedSha256_finalize(hs).h
    /\ ret' = ChunkedSha256_finalize(hs).out
    /\ calls' = Append(calls, [op |-> "finalize", idx |-> 0, data |-> << >>,
                                out |-> ChunkedSha256_finalize(hs).out])
    /\ UNCHANGED <<poolVars, pullerVars, crawlVars, viewVars, disk, catalogVars, store, pushVars, pullVars, obsVars>>

HashNext ==
    \/ \E idx \in 0..MaxBlockIdx, data \in BlockData : HashUpdate(idx, data)
    \/ HashFinalize

SpecHash == HashInit /\ [][HashNext]_vars

----------------------------------------------------------------------------
(***************************************************************************)
(* Specification SpecPool: one ThreadPool of 1..Workers workers with a     *)
(* queue of 0..MaxQueueSize messages, with or without callback; its owner  *)
(* gives it up to MaxJobs jobs and drops it.  A job returns or panics.     *)
(* SpecPoolLive adds the scheduling of the threads: a thread that can take *)
(* a step eventually takes one, a running job eventually ends.             *)
(***************************************************************************)

nonPoolVars == <<hashVars, disk, catalogVars, store, pushVars, pullVars, obsVars, pullerVars,
                 crawlVars, viewVars>>

PoolInit ==
    /\ hs = ChunkedSha256_new
    /\ calls = << >>
    /\ ret = None
    /\ disk = [f \in FileIds |-> 0]
    /\ files = [f \in FileIds |-> NoFile]
    /\ chunks = [f \in FileIds |-> << >>]
    /\ store = << >>
    /\ ppc = "idle"
    /\ filesTodo = << >>
    /\ chunksTodo = << >>
    /\ hashes = << >>
    /\ worker = [w \in WorkerIds |-> IdleWorker]
    /\ dest = [f \in FileIds |-> NoDest]
    /\ pull = NoPull
    /\ run = NoRun
    /\ markDoneCalls = [f \in FileIds |-> 0]
    /\ doneFresh = {}
    /\ \E n \in 1..Workers, q \in 0..MaxQueueSize, cb \in BOOLEAN :
          /\ tp = ThreadPool_new(n, q, cb)
          /\ tpWorker = [w \in 1..n |-> Worker_new]
    /\ tpQueue = << >>
    /\ tpJobs = [j \in 1..MaxJobs |-> NewJob]
    /\ PullerUnused
    /\ CrawlUnused
    /\ ViewUnused

PoolExecute(j) == ThreadPool_execute(j) /\ UNCHANGED nonPoolVars
PoolSendBuffered == ThreadPool_send_buffered /\ UNCHANGED nonPoolVars
PoolSendDisconnected == ThreadPool_send_disconnected /\ UNCHANGED nonPoolVars
PoolWorkerRecv(w) == Worker_recv(w) /\ UNCHANGED nonPoolVars
PoolJobReturns(w) == Worker_job_returns(w) /\ UNCHANGED nonPoolVars
PoolJobPanics(w) == Worker_job_panics(w) /\ UNCHANGED nonPoolVars
PoolDrop == ThreadPool_drop /\ UNCHANGED nonPoolVars
PoolDropSendEnd == ThreadPool_drop_send_end /\ UNCHANGED nonPoolVars
PoolDropJoin == ThreadPool_drop_join /\ UNCHANGED nonPoolVars
PoolDropCallback == ThreadPool_drop_callback /\ UNCHANGED nonPoolVars

PoolNext ==
    \/ \E j \in 1..MaxJobs : PoolExecute(j)
    \/ PoolSendBuffered
    \/ PoolSendDisconnected
    \/ \E w \in WorkerIds : PoolWorkerRecv(w)
    \/ \E w \in WorkerIds : PoolJobReturns(w)
    \/ \E w \in WorkerIds : PoolJobPanics(w)
    \/ PoolDrop
    \/ PoolDropSendEnd
    \/ PoolDropJoin
    \/ PoolDropCallback

SpecPool == PoolInit /\ [][PoolNext]_vars

PoolFairness ==
    /\ WF_vars(PoolSendBuffered)
    /\ WF_vars(PoolSendDisconnected)
    /\ \A w \in WorkerIds : WF_vars(PoolWorkerRecv(w))
    /\ \A w \in WorkerIds : WF_vars(PoolJobReturns(w) \/ PoolJobPanics(w))
    /\ WF_vars(PoolDropSendEnd)
    /\ WF_vars(PoolDropJoin)
    /\ WF_vars(PoolDropCallback)

SpecPoolLive == PoolInit /\ [][PoolNext]_vars /\ PoolFairness

----------------------------------------------------------------------------
(***************************************************************************)
(* Specification SpecPull: Pull::execute on a file that was crawled and    *)
(* pushed, with its threads: the thread of execute, the workers of the     *)
(* pool (1..Workers, queue 0..MaxQueueSize) running one job per chunk row, *)
(* and the writer thread behind a channel of `workers` messages.  The      *)
(* destination exists or not; a catalog read may fail.                     *)
(***************************************************************************)

pullRest == <<hashVars, disk, catalogVars, store, pushVars, pull, obsVars, crawlVars,
              viewVars>>

\* the chunk rows of a file of n bytes after crawl and a push of every chunk
PushedChunkRows(f, n) ==
    LET rows == VisitedChunkRows(<< >>, n)
    IN [i \in DOMAIN rows |->
          LET data == SubSeq(Content(f, n), rows[i].offset + 1,
                             rows[i].offset + rows[i].payload_size)
          IN chunks_mark_done(rows, i, sha256(data), Len(data))[i]]

\* the objects the push of every chunk of a file of n bytes has put
PushedObjects(f, n) ==
    LET rows == VisitedChunkRows(<< >>, n)
    IN [k \in {ChunkUuid(f, i) : i \in DOMAIN rows} |->
          LET i == k[3]
          IN Encrypted(Envelope(f, i, chunks_count(n), rows[i].offset,
                                SubSeq(Content(f, n), rows[i].offset + 1,
                                       rows[i].offset + rows[i].payload_size)))]

PullInit ==
    /\ hs = ChunkedSha256_new
    /\ calls = << >>
    /\ ret = None
    /\ ppc = "idle"
    /\ filesTodo = << >>
    /\ chunksTodo = << >>
    /\ hashes = << >>
    /\ worker = [w \in WorkerIds |-> IdleWorker]
    /\ pull = NoPull
    /\ run = NoRun
    /\ markDoneCalls = [f \in FileIds |-> 0]
    /\ doneFresh = {}
    /\ \E n \in 0..MaxFileSize :
          /\ disk = [f \in FileIds |-> n]
          /\ files = [f \in FileIds |->
                        IF n = 0 THEN VisitedFileRow(NoFile, n)
                        ELSE files_mark_done(VisitedFileRow(NoFile, n),
                                             sha256(Content(f, n)))]
          /\ chunks = [f \in FileIds |-> PushedChunkRows(f, n)]
          /\ store = PushedObjects(1, n)
          /\ tpJobs = [j \in 1..chunks_count(n) |-> NewJob]
    /\ \E existed \in BOOLEAN :
          dest = [f \in FileIds |-> IF existed THEN [exists |-> TRUE, bytes |-> <<7>>]
                                    ELSE NoDest]
    /\ \E n \in 1..Workers, q \in 0..MaxQueueSize :
          /\ tp = ThreadPool_new(n, q, FALSE)
          /\ tpWorker = [w \in 1..n |-> Worker_new]
          /\ pullJob = [w \in 1..n |-> NoChunkMsg]
    /\ tpQueue = << >>
    /\ puller = [NoPuller EXCEPT !.pc = "start", !.file = 1, !.dest0 = dest[1]]
    /\ wchan = << >>
    /\ writer = NoWriter
    /\ CrawlUnused
    /\ ViewUnused

\* Pull::execute: find_by_path, sync_channel, create_file (bails when the
\* destination can be opened), thread::spawn of the writer, with_callback
PullCreateFile ==
    /\ puller.pc = "start"
    /\ LET f == puller.file
       IN IF FileOpenOk(dest[f])
          THEN /\ puller' = [puller EXCEPT !.pc = "bail"]
               /\ UNCHANGED <<dest, writer, tp>>
          ELSE /\ dest' = [dest EXCEPT ![f] = SparseFile(files[f].size)]
               /\ writer' = [pc |-> "recv", written |-> << >>]
               /\ tp' = [tp EXCEPT !.callback = TRUE]
               /\ puller' = [puller EXCEPT !.pc = "list"]
    /\ UNCHANGED <<wchan, pullJob, tpQueue, tpWorker, tpJobs, pullRest>>

\* process_chunked_file: chunks_repository.find_by_file_uuid(&file.uuid)?,
\* which returns the rows or fails
PullListChunks ==
    /\ puller.pc = "list"
    /\ \/ puller' = [puller EXCEPT !.pc = "submit",
                                   !.todo = SortedSeq(DOMAIN chunks[puller.file])]
       \/ puller' = [puller EXCEPT !.pc = "drop_err"]
    /\ UNCHANGED <<dest, wchan, writer, pullJob, poolVars, pullRest>>

\* process_chunked_file: thread_pool.execute(job) for the next chunk row
PullSubmit ==
    /\ puller.pc = "submit"
    /\ puller.todo # << >>
    /\ ThreadPool_execute(Head(puller.todo) + 1)
    /\ puller' = [puller EXCEPT !.todo = Tail(@)]
    /\ UNCHANGED <<dest, wchan, writer, pullJob, pullRest>>

\* execute_and_terminate returns (or `?` leaves execute): self is dropped,
\* Drop for ThreadPool begins
PullDropPool ==
    /\ \/ puller.pc \in {"bail", "drop_err"}
       \/ puller.pc = "submit" /\ puller.todo = << >>
    /\ ThreadPool_drop
    /\ puller' = [puller EXCEPT !.pc = IF @ = "submit" THEN "drop" ELSE @]
    /\ UNCHANGED <<dest, wchan, writer, pullJob, pullRest>>

PullPoolSendEnd ==
    ThreadPool_drop_send_end /\ UNCHANGED <<pullerVars, dest, pullRest>>

PullPoolSendBuffered ==
    ThreadPool_send_buffered /\ UNCHANGED <<pullerVars, dest, pullRest>>

PullPoolJoin ==
    ThreadPool_drop_join /\ UNCHANGED <<pullerVars, dest, pullRest>>

PullWorkerRecv(w) ==
    Worker_recv(w) /\ UNCHANGED <<pullerVars, dest, pullRest>>

\* the callback of the pool: `let _ = sender.send(Message::Done)`, which
\* waits for room in the channel
PullPoolCallback ==
    /\ ThreadPool_drop_callback
    /\ IF tp.callback
       THEN /\ Len(wchan) < tp.workers
            /\ wchan' = Append(wchan, Message_Done)
            /\ puller' = [puller EXCEPT
                             !.done_sent = TRUE,
                             !.jobs_at_done =
                                 \A j \in DOMAIN tpJobs :
                                     tpJobs[j].state = "accepted" => tpJobs[j].finished]
       ELSE UNCHANGED <<wchan, puller>>
    /\ UNCHANGED <<dest, writer, pullJob, pullRest>>

\* the job of a chunk row: store.get(uuid), decrypt, decode (an error is
\* logged and the job returns), then sender.send(Message::Chunk{..}), which
\* waits for room in the channel
PullJob(w) ==
    /\ w \in DOMAIN tpWorker
    /\ tpWorker[w].pc = "job"
    /\ IF pullJob[w] = NoChunkMsg
       THEN LET got == PullFetch(PullObjectKey(puller.file, tpWorker[w].job - 1))
            IN /\ puller' = [puller EXCEPT !.gets = @ + 1]
               /\ IF got.some
                  THEN /\ pullJob' = [pullJob EXCEPT ![w] =
                                         Message_Chunk(got.value.metadata.offset,
                                                       got.value.payload)]
                       /\ UNCHANGED poolVars
                  ELSE /\ Worker_job_returns(w)
                       /\ UNCHANGED pullJob
               /\ UNCHANGED wchan
       ELSE /\ Len(wchan) < tp.workers
            /\ wchan' = Append(wchan, pullJob[w])
            /\ pullJob' = [pullJob EXCEPT ![w] = NoChunkMsg]
            /\ puller' = [puller EXCEPT !.sent = @ + 1]
            /\ Worker_job_returns(w)
    /\ UNCHANGED <<dest, writer, pullRest>>

\* the writer thread: receiver.recv(); Chunk: seek to offset and write_all;
\* Done: return
WriterRecv ==
    /\ writer.pc = "recv"
    /\ wchan # << >>
    /\ wchan' = Tail(wchan)
    /\ IF Head(wchan).kind = "Chunk"
       THEN /\ dest' = [dest EXCEPT ![puller.file].bytes =
                           WriteAt(@, Head(wchan).offset, Head(wchan).payload)]
            /\ writer' = [writer EXCEPT !.written = Append(@, Head(wchan))]
       ELSE /\ writer' = [writer EXCEPT !.pc = "terminated"]
            /\ UNCHANGED dest
    /\ UNCHANGED <<puller, pullJob, poolVars, pullRest>>

\* execute: `let _ = join.join(); Ok(())`
PullJoinWriter ==
    /\ puller.pc = "drop"
    /\ tp.pc = "dropped"
    /\ writer.pc = "terminated"
    /\ puller' = [puller EXCEPT !.pc = "returned_ok"]
    /\ UNCHANGED <<dest, wchan, writer, pullJob, poolVars, pullRest>>

\* execute returns the error of create_file or of execute_and_terminate (`?`)
PullReturnErr ==
    /\ puller.pc \in {"bail", "drop_err"}
    /\ tp.pc = "dropped"
    /\ puller' = [puller EXCEPT !.pc = "returned_err"]
    /\ UNCHANGED <<dest, wchan, writer, pullJob, poolVars, pullRest>>

PullNext ==
    \/ PullCreateFile
    \/ PullListChunks
    \/ PullSubmit
    \/ PullDropPool
    \/ PullPoolSendEnd
    \/ PullPoolSendBuffered
    \/ PullPoolJoin
    \/ PullPoolCallback
    \/ \E w \in WorkerIds : PullWorkerRecv(w)
    \/ \E w \in WorkerIds : PullJob(w)
    \/ WriterRecv
    \/ PullJoinWriter
    \/ PullReturnErr

SpecPull == PullInit /\ [][PullNext]_vars

----------------------------------------------------------------------------
(***************************************************************************)
(* Claims about ChunkedSha256                                              *)
(***************************************************************************)

\* the calls made so far are N updates, one for each index of 0..N-1 in some
\* order, followed by one finalize
IsPermutationThenFinalize ==
    /\ Len(calls) >= 1
    /\ calls[Len(calls)].op = "finalize"
    /\ \A k \in 1..(Len(calls) - 1) : calls[k].op = "update"
    /\ \A i \in 0..(Len(calls) - 2) :
          Cardinality({k \in 1..(Len(calls) - 1) : calls[k].idx = i}) = 1

\* the data given for block i
BlockOf(i) == calls[CHOOSE k \in 1..(Len(calls) - 1) : calls[k].idx = i].data

RECURSIVE InOrderBytes(_)
InOrderBytes(n) == IF n = 0 THEN << >> ELSE InOrderBytes(n - 1) \o BlockOf(n - 1)

\* C10: on a fresh hasher, whatever the order in which the blocks 0..N-1 are
\* given (each once), finalize returns the digest of the blocks in index order.
C10_AnyOrderSameDigest ==
    IsPermutationThenFinalize =>
        ret = Some(sha256(InOrderBytes(Len(calls) - 1)))

\* three blocks given last-to-first with different contents, then finalize
C10_Witness ==
    /\ IsPermutationThenFinalize
    /\ Len(calls) = 4
    /\ calls[1].idx = 2 /\ calls[2].idx = 1 /\ calls[3].idx = 0
    /\ calls[1].data # calls[3].data
    /\ ret.some

\* the update calls of a series of calls
UpdatesOf(s) == SelectSeq(s, LAMBDA c : c.op = "update")

\* the updates u give each index of 0..Len(u)-1 exactly once
CoversOnce(u) ==
    \A i \in 0..(Len(u) - 1) : Cardinality({k \in 1..Len(u) : u[k].idx = i}) = 1

\* the blocks of the updates u, concatenated in index order up to index n-1
RECURSIVE BlocksInOrder(_, _)
BlocksInOrder(u, n) ==
    IF n = 0 THEN << >>
    ELSE BlocksInOrder(u, n - 1) \o u[CHOOSE k \in 1..Len(u) : u[k].idx = n - 1].data

\* the calls so far end with a finalize, no earlier finalize returned a digest,
\* and the updates made give each index of 0..N-1 once
IsResumedThenFinalize ==
    /\ Len(calls) >= 1
    /\ calls[Len(calls)].op = "finalize"
    /\ \A k \in 1..(Len(calls) - 1) : calls[k].op = "finalize" => ~calls[k].out.some
    /\ CoversOnce(UpdatesOf(calls))

\* C11: finalize returns a digest exactly when no block is stashed; when it
\* returns None the hasher (next_block, accumulator, pending) is unchanged, and
\* once the missing indices have been supplied a later finalize returns the
\* digest of all the blocks in index order.
C11_NotReadyKeepsState ==
    [][ (Len(calls') = Len(calls) + 1 /\ calls'[Len(calls')].op = "finalize") =>
           /\ ret'.some <=> (DOMAIN hs.pending_blocks = {})
           /\ ~ret'.some => hs' = hs
           /\ IsResumedThenFinalize' =>
                 ret' = Some(sha256(BlocksInOrder(UpdatesOf(calls'),
                                                  Len(UpdatesOf(calls')))))
      ]_vars

\* block 1 is given, finalize answers None, block 0 is given, finalize answers
\* the digest of both blocks
C11_Witness ==
    /\ Len(calls) = 4
    /\ calls[1].op = "update" /\ calls[1].idx = 1
    /\ calls[2].op = "finalize" /\ ~calls[2].out.some
    /\ calls[3].op = "update" /\ calls[3].idx = 0
    /\ calls[4].op = "finalize"
    /\ calls[1].data # calls[3].data
    /\ ret = Some(sha256(calls[3].data \o calls[1].data))

\* the calls from position k on, replayed on the hasher h: what the last one returns
RECURSIVE Replay(_, _, _)
Replay(h, s, last) ==
    IF s = << >> THEN last
    ELSE IF Head(s).op = "update"
         THEN Replay(ChunkedSha256_update(h, Head(s).data, Head(s).idx), Tail(s), None)
         ELSE Replay(ChunkedSha256_finalize(h).h, Tail(s), ChunkedSha256_finalize(h).out)

\* the positions k of calls at which a finalize returned a digest and after
\* which come only updates giving each index of 0..M-1 once (M >= 1), then
\* the last call, a finalize
ResetPoints ==
    {k \in 1..(Len(calls) - 2) :
        /\ calls[k].op = "finalize" /\ calls[k].out.some
        /\ calls[Len(calls)].op = "finalize"
        /\ \A j \in (k + 1)..(Len(calls) - 1) : calls[j].op = "update"
        /\ CoversOnce(SubSeq(calls, k + 1, Len(calls) - 1))}

\* C12: after a finalize that returned a digest, a series of updates covering
\* the indices 0..M-1 followed by finalize returns what a new ChunkedSha256
\* returns for the same series of calls.
C12_ResetBehavesLikeNew ==
    \A k \in ResetPoints :
        ret = Replay(ChunkedSha256_new, SubSeq(calls, k + 1, Len(calls)), None)

----------------------------------------------------------------------------
(***************************************************************************)
(* Claims about the ThreadPool                                             *)
(***************************************************************************)

AnyJobPanicked == \E j \in DOMAIN tpJobs : tpJobs[j].panicked

AcceptedJobs == {j \in DOMAIN tpJobs : tpJobs[j].state = "accepted"}

AllWorkersExited == \A w \in DOMAIN tpWorker : tpWorker[w].pc = "exited"

\* C13: (no job panicking) a job is run only when execute accepted it and at
\* most once; the callback is invoked at most once, only when every accepted
\* job has finished and every worker has exited; when drop has returned every
\* accepted job has run exactly once and a registered callback was invoked
\* exactly once.
C13_JobsOnceThenCallbackOnce ==
    ~AnyJobPanicked =>
        /\ \A j \in DOMAIN tpJobs :
              /\ tpJobs[j].runs <= 1
              /\ tpJobs[j].runs = 1 => j \in AcceptedJobs
              /\ tpJobs[j].state # "refused"
        /\ tp.callback_calls <= 1
        /\ (tp.callback_calls = 1 \/ tp.pc = "dropped") =>
              /\ \A j \in AcceptedJobs : tpJobs[j].runs = 1 /\ tpJobs[j].finished
              /\ AllWorkersExited
        /\ (tp.pc = "dropped" /\ tp.callback) => tp.callback_calls = 1
        /\ tp.pc # "panicked"

\* a pool of two workers with a callback was given three jobs and dropped
C13_Witness ==
    /\ tp.pc = "dropped"
    /\ tp.workers = 2
    /\ tp.callback_calls = 1
    /\ AcceptedJobs = 1..3
    /\ \A j \in 1..3 : tpJobs[j].runs = 1
    /\ AllWorkersExited

\* C14: (no job panicking, every job ending) a drop that has begun returns,
\* whatever the number of workers and the size of the queue; when it has
\* returned every worker has consumed exactly one End token and has exited
\* and no message is left in the channel.
C14_DropTerminates ==
    /\ (tp.pc \in {"drop_send", "drop_join", "drop_callback"})
          ~> (tp.pc = "dropped" \/ AnyJobPanicked)
    /\ []((tp.pc = "dropped" /\ ~AnyJobPanicked) =>
             /\ \A w \in DOMAIN tpWorker :
                   tpWorker[w].pc = "exited" /\ tpWorker[w].ends = 1
             /\ tp.joined = tp.workers
             /\ tpQueue = << >>)

\* the drop of a rendezvous pool of two workers has returned after two jobs
C14_Witness ==
    /\ tp.pc = "dropped"
    /\ tp.workers = 2
    /\ tp.max_queue_size = 0
    /\ Cardinality(AcceptedJobs) = 2
    /\ \A w \in DOMAIN tpWorker : tpWorker[w].ends = 1

\* C15: a job that panics leaves the pool usable: execute still accepts jobs,
\* the drop does not panic, and when it has returned every accepted job has
\* run and a registered callback was invoked.
C15_PanicIsolated ==
    AnyJobPanicked =>
        /\ tp.pc # "panicked"
        /\ \A j \in DOMAIN tpJobs : tpJobs[j].state # "refused"
        /\ tp.pc = "dropped" =>
              /\ \A j \in AcceptedJobs : tpJobs[j].runs = 1
              /\ tp.callback => tp.callback_calls = 1

----------------------------------------------------------------------------
(***************************************************************************)
(* Claims about the push pipeline and the catalog                          *)
(***************************************************************************)

\* the clear payloads of the chunk rows idxs (in this order) of file f
RECURSIVE PayloadsOf(_, _)
PayloadsOf(f, idxs) ==
    IF idxs = << >> THEN << >>
    ELSE ReadSlice(f, chunks[f][Head(idxs)].offset, chunks[f][Head(idxs)].payload_size)
         \o PayloadsOf(f, Tail(idxs))

\* SHA-256 of the clear payloads of the pushed chunks of f, in index order
ExpectedSha(f) == sha256(PayloadsOf(f, SortedSeq(IdxWithStatus(chunks[f], "DONE"))))

\* C1: when a push run that uploads all the chunks of a file (its jobs running
\* concurrently on the pool) marks the file Done, the sha256 of the File row is
\* the SHA-256 of the clear chunk payloads in index order.
C1_DoneShaIsInOrderDigest ==
    \A f \in FileIds :
        (files[f].status = "DONE" /\ f \in doneFresh) =>
            files[f].sha256 = ExpectedSha(f)

\* C2: files.mark_done is executed at most once for every file.
C2_MarkDoneAtMostOnce ==
    \A f \in FileIds : markDoneCalls[f] <= 1

\* C3: a File row that is Done has all its Chunk rows Done.
C3_DoneFileHasDoneChunks ==
    \A f \in FileIds :
        (files[f].present /\ files[f].status = "DONE") => AllSiblingsDone(chunks[f])

\* C4: when a push run has completed and no job failed, every file that was
\* Pending when it started is Done (files of size 0 included).
C4_PendingFilesDoneAfterPush ==
    (run.complete /\ ~run.failed) =>
        \A f \in run.pendingFiles : files[f].status = "DONE"

\* C5: a file of which some chunks, not all, were Done when the push was
\* interrupted is, after the restarted push completed without failure, Done
\* with the SHA-256 of all its chunk payloads in index order.
C5_ResumedFileShaIsWholeDigest ==
    (run.complete /\ run.restarted /\ ~run.failed) =>
        \A f \in run.partial :
            /\ files[f].status = "DONE"
            /\ files[f].sha256 = ExpectedSha(f)

C7_RestartedPushCompletesFiles ==
    (run.complete /\ run.restarted /\ ~run.failed) =>
        \A f \in run.pendingWithChunks : files[f].status = "DONE"

\* C8: a Chunk row goes from Pending to Done only in the job of that chunk and
\* after its store.put returned success; a job whose encryption or put failed
\* ends without any catalog write (chunk and file stay as they were).
C8_DoneOnlyAfterPutOk ==
    [][ /\ \A f \in FileIds : \A i \in DOMAIN chunks[f] :
              (chunks[f][i].status = "PENDING" /\ chunks'[f][i].status = "DONE") =>
                  \E w \in WorkerIds :
                      /\ worker[w].pc = "mark_chunk"
                      /\ worker[w].file = f /\ worker[w].idx = i
                      /\ worker[w].put_ok
                      /\ ChunkUuid(f, i) \in DOMAIN store
        /\ (ppc # "idle" /\ <<files, chunks>>' # <<files, chunks>>) =>
              \E w \in WorkerIds :
                  /\ worker[w].pc \in {"mark_chunk", "mark_file"}
                  /\ worker[w].put_ok
                  /\ worker'[w] # worker[w]
        /\ \A w \in WorkerIds :
              (worker[w].pc = "push" /\ worker'[w].pc = "idle" /\ ppc' = "files") =>
                  (<<files, chunks>>' = <<files, chunks>> /\ run'.failed)
      ]_vars

\* a run in which put was called for a chunk and failed, the chunk and its file
\* still Pending, while another chunk of the file was uploaded and is Done
C8_Witness ==
    /\ run.failed
    /\ \E k \in DOMAIN run.puts :
          /\ chunks[k[1]][k[2]].status = "PENDING"
          /\ files[k[1]].status = "PENDING"
          /\ ChunkUuid(k[1], k[2]) \notin DOMAIN store
          /\ \E j \in DOMAIN chunks[k[1]] :
                /\ chunks[k[1]][j].status = "DONE"
                /\ ChunkUuid(k[1], j) \in DOMAIN store

----------------------------------------------------------------------------
(***************************************************************************)
(* Claims about pull                                                       *)
(***************************************************************************)

\* C9: when the pull of a crawled and fully pushed file has finished, the bytes
\* of the destination file are the bytes of the source file.
C9_PullRestoresSource ==
    (pull.pc = "done" /\ pull.fully_pushed) =>
        dest[pull.file].bytes = Content(pull.file, files[pull.file].size)

PullReturned == puller.pc \in {"returned_ok", "returned_err"}

\* C16: when the pull of a chunked file has returned, the destination holds
\* the payload of every stored chunk of the file at the offset of the chunk,
\* whatever the order in which the jobs ran and their messages arrived.
C16_PayloadsAtOffsets ==
    puller.pc = "returned_ok" =>
        \A i \in DOMAIN chunks[puller.file] :
            ChunkUuid(puller.file, i) \in DOMAIN store =>
                LET c == Decrypted(store[ChunkUuid(puller.file, i)])
                IN SubSeq(dest[puller.file].bytes, c.metadata.offset + 1,
                          c.metadata.offset + Len(c.payload)) = c.payload

\* C17: Done is sent by the callback only, when every accepted job has
\* finished; the writer has written every Chunk message sent when it
\* terminates; and Pull::execute returns only when the writer it spawned has
\* terminated.
C17_WriterDrainedBeforeReturn ==
    /\ puller.jobs_at_done
    /\ (\E k \in 1..Len(wchan) : wchan[k].kind = "Done") => puller.done_sent
    /\ writer.pc = "terminated" =>
          (puller.done_sent /\ Len(writer.written) = puller.sent)
    /\ (PullReturned /\ writer.pc # "none") => writer.pc = "terminated"

----------------------------------------------------------------------------
(***************************************************************************)
(* The crawl over a tree with small files: crawl runs and changes of the   *)
(* files between runs                                                      *)
(***************************************************************************)

\* Config::get_aggregate_min_size: the configured size capped by chunk_size;
\* aggregation switched off (the default) or on for every file below a chunk
AggregateMinSizes == {0, ChunkSize}

\* Config::get_aggregate_size: the configured size capped by chunk_size;
\* one byte below a chunk, or the default, a chunk
AggregateSizes == {ChunkSize - 1, ChunkSize}

\* the lengths of the files of the tree: empty, one byte, one full chunk, one
\* chunk and a byte
CrawlSizes == {0, 1, ChunkSize, ChunkSize + 1}

crawlRest == <<hashVars, disk, catalogVars, store, pushVars, pullVars, obsVars, pullerVars,
               poolVars, viewVars>>

CrawlInit ==
    /\ hs = ChunkedSha256_new
    /\ calls = << >>
    /\ ret = None
    /\ disk = [f \in FileIds |-> 0]
    /\ files = [f \in FileIds |-> NoFile]
    /\ chunks = [f \in FileIds |-> << >>]
    /\ store = << >>
    /\ ppc = "idle"
    /\ filesTodo = << >>
    /\ chunksTodo = << >>
    /\ hashes = << >>
    /\ worker = [w \in WorkerIds |-> IdleWorker]
    /\ dest = [f \in FileIds |-> NoDest]
    /\ pull = NoPull
    /\ run = NoRun
    /\ markDoneCalls = [f \in FileIds |-> 0]
    /\ doneFresh = {}
    /\ PoolUnused
    /\ PullerUnused
    /\ ViewUnused
    /\ tree \in [FilePaths -> CrawlSizes]
    /\ links = << >>
    /\ cat = EmptyCatalog
    /\ \E m \in AggregateMinSizes, a \in AggregateSizes :
          crawl = [NoCrawl EXCEPT !.aggregate_min_size = m, !.aggregate_size = a]

\* crawl::execute: a new Crawl (no current aggregate) starts to walk the root folder
CrawlStart ==
    /\ crawl.pc = "idle"
    /\ crawl.runs < MaxRuns
    /\ \E o \in WalkOrders :
          crawl' = [crawl EXCEPT !.pc = "walk", !.order = o,
                                 !.current_aggregate = None,
                                 !.before = cat,
                                 !.repeat = (crawl.last_tree = Some(tree)),
                                 !.last_tree = Some(tree)]
    /\ UNCHANGED <<tree, links, cat, crawlRest>>

\* visit_dir / visit_path: fs::metadata says the next entry is a file,
\* visit_file plans it unless its name is ignored
CrawlVisitPath ==
    /\ crawl.pc = "walk"
    /\ crawl.order # << >>
    /\ EntryKind(Head(crawl.order)) = "file"
    /\ LET path == Head(crawl.order)
           len == MetadataLen(path)
           v == IF IsIgnored(path, crawl.ignored)
                THEN [cat |-> cat, current |-> crawl.current_aggregate,
                      next_tar |-> crawl.next_tar]
                ELSE visit_file(cat, crawl.current_aggregate, crawl.next_tar, path, len,
                                crawl.aggregate_min_size, crawl.aggregate_size)
       IN /\ cat' = v.cat
          /\ crawl' = [crawl EXCEPT !.order = Tail(@),
                                    !.current_aggregate = v.current,
                                    !.next_tar = v.next_tar,
                                    !.resized = @ \cup ResizedSince(cat, path, len),
                                    !.faulted = @ \ {path}]
    /\ UNCHANGED <<tree, links, crawlRest>>

\* crawl::execute returns: every entry was visited
CrawlEnd ==
    /\ crawl.pc = "walk"
    /\ crawl.order = << >>
    /\ crawl' = [crawl EXCEPT !.pc = "idle", !.runs = @ + 1]
    /\ UNCHANGED <<tree, links, cat, crawlRest>>

\* between two runs a file of the tree is rewritten with another length
TreeChange(path, len) ==
    /\ crawl.pc = "idle"
    /\ crawl.runs >= 1
    /\ crawl.runs < MaxRuns
    /\ crawl.changes < MaxChanges
    /\ len # tree[path]
    /\ tree' = [tree EXCEPT ![path] = len]
    /\ crawl' = [crawl EXCEPT !.changes = @ + 1]
    /\ UNCHANGED <<links, cat, crawlRest>>

CrawlNext ==
    \/ CrawlStart
    \/ CrawlVisitPath
    \/ CrawlEnd
    \/ \E path \in FilePaths, len \in CrawlSizes : TreeChange(path, len)

SpecCrawl == CrawlInit /\ [][CrawlNext]_vars

----------------------------------------------------------------------------
(***************************************************************************)
(* The crawl over a tree with a symbolic link, with file system and        *)
(* catalog operations that fail                                            *)
(***************************************************************************)

\* the lengths of the files of the tree: one byte, one chunk and a byte
CrawlErrSizes == {1, ChunkSize + 1}

CrawlErrInit ==
    /\ hs = ChunkedSha256_new
    /\ calls = << >>
    /\ ret = None
    /\ disk = [f \in FileIds |-> 0]
    /\ files = [f \in FileIds |-> NoFile]
    /\ chunks = [f \in FileIds |-> << >>]
    /\ store = << >>
    /\ ppc = "idle"
    /\ filesTodo = << >>
    /\ chunksTodo = << >>
    /\ hashes = << >>
    /\ worker = [w \in WorkerIds |-> IdleWorker]
    /\ dest = [f \in FileIds |-> NoDest]
    /\ pull = NoPull
    /\ run = NoRun
    /\ markDoneCalls = [f \in FileIds |-> 0]
    /\ doneFresh = {}
    /\ PoolUnused
    /\ PullerUnused
    /\ ViewUnused
    /\ tree \in [FilePaths -> CrawlErrSizes]
    /\ links \in [{LinkPath} -> {"file", "dir", "dangling"}]
    /\ cat = EmptyCatalog
    /\ \E m \in AggregateMinSizes, a \in AggregateSizes, g \in {{}, {"c"}} :
          crawl = [NoCrawl EXCEPT !.aggregate_min_size = m, !.aggregate_size = a,
                                  !.ignored = g]

\* visit_path: fs::metadata says the entry is a folder; read_dir, then
\* visit_dir walks its entries before the rest
CrawlVisitDir ==
    /\ crawl.pc = "walk"
    /\ crawl.order # << >>
    /\ EntryKind(Head(crawl.order)) = "dir"
    /\ \E sub \in [1..Cardinality(LinkChildren) -> LinkChildren] :
          /\ \A i, j \in DOMAIN sub : i # j => sub[i] # sub[j]
          /\ crawl' = [crawl EXCEPT !.order = sub \o Tail(@)]
    /\ UNCHANGED <<tree, links, cat, crawlRest>>

\* visit_dir: the entry cannot be read, or visit_path: fs::metadata fails
\* (as it does for a symbolic link without target); logged, the walk goes on
CrawlEntryError ==
    /\ crawl.pc = "walk"
    /\ crawl.order # << >>
    /\ \/ EntryKind(Head(crawl.order)) = "error" /\ crawl' = [crawl EXCEPT
              !.order = RestAfterError(@), !.faulted = @ \cup {Head(crawl.order)}]
       \/ /\ crawl.faults < MaxFaults
          /\ crawl' = [crawl EXCEPT
              !.order = RestAfterError(@), !.faulted = @ \cup {Head(crawl.order)},
              !.faults = @ + 1]
    /\ UNCHANGED <<tree, links, cat, crawlRest>>

\* visit_path: read_dir of a sub-folder fails; none of its entries is visited
CrawlReadDirError ==
    /\ crawl.pc = "walk"
    /\ crawl.order # << >>
    /\ crawl.faults < MaxFaults
    /\ LET path == Head(crawl.order)
       IN \/ /\ EntryKind(path) = "dir"
             /\ crawl' = [crawl EXCEPT !.order = RestAfterError(@),
                                       !.faulted = @ \cup {path},
                                       !.faults = @ + 1]
          \/ /\ path \in FilePaths
             /\ ParentOf(path) # << >>
             /\ Siblings(crawl.order, path) = {f \in FilePaths : ParentOf(f) = ParentOf(path)}
             /\ crawl' = [crawl EXCEPT
                   !.order = RestAfterError(<<path>> \o Without(@, Siblings(crawl.order, path))),
                   !.faulted = @ \cup Siblings(crawl.order, path),
                   !.faults = @ + 1]
    /\ UNCHANGED <<tree, links, cat, crawlRest>>

\* visit_file: one catalog operation fails; the error is returned to visit_dir,
\* which logs it (an error of fuse::fs::insert is logged by visit_file itself)
CrawlVisitFileError ==
    /\ crawl.pc = "walk"
    /\ crawl.order # << >>
    /\ EntryKind(Head(crawl.order)) = "file"
    /\ ~IsIgnored(Head(crawl.order), crawl.ignored)
    /\ crawl.faults < MaxFaults
    /\ LET path == Head(crawl.order)
           len == MetadataLen(path)
       IN \E at \in FaultPoints(cat, crawl.current_aggregate, path, len,
                                crawl.aggregate_min_size, crawl.aggregate_size) :
             LET v == visit_file_error(cat, crawl.current_aggregate, crawl.next_tar, path,
                                       len, crawl.aggregate_min_size, crawl.aggregate_size,
                                       at[1], at[2])
             IN /\ cat' = v.cat
                /\ crawl' = [crawl EXCEPT
                      !.order = RestAfterError(@),
                      !.current_aggregate = v.current,
                      !.next_tar = v.next_tar,
                      !.resized = @ \cup ResizedSince(cat, path, len),
                      !.faults = @ + 1,
                      !.faulted = IF at[1] \in LoggedOnly THEN @ \ {path} ELSE @ \cup {path}]
    /\ UNCHANGED <<tree, links, crawlRest>>

\* crawl::execute on the empty catalog
CrawlFirstStart == crawl.runs = 0 /\ CrawlStart

CrawlErrNext ==
    \/ CrawlFirstStart
    \/ CrawlVisitPath
    \/ CrawlVisitDir
    \/ CrawlEntryError
    \/ CrawlReadDirError
    \/ CrawlVisitFileError
    \/ CrawlEnd

SpecCrawlErr == CrawlErrInit /\ [][CrawlErrNext]_vars

----------------------------------------------------------------------------
(***************************************************************************)
(* Claims on the planner                                                   *)
(***************************************************************************)

\* the sum of the payload sizes of chunk rows
RECURSIVE PayloadSum(_, _)
PayloadSum(rows, idxs) ==
    IF idxs = {} THEN 0
    ELSE LET i == CHOOSE x \in idxs : TRUE
         IN rows[i].payload_size + PayloadSum(rows, idxs \ {i})

\* the files of the tree with a Chunked File row that records their length on
\* disk, and that no crawl has met with another length
PlannedChunked ==
    {p \in (FilePaths \cap DOMAIN cat.files) \ crawl.resized :
        cat.files[p].mode = "CHUNKED" /\ cat.files[p].size = tree[p]}

\* C19: after a crawl, every Chunked file of size N has chunk rows for exactly
\* the indices 0..ceil(N/C)-1 (C the chunk size); row i has offset i*C and
\* payload_size min(C, N - i*C), is Pending with size 0, and the payload
\* sizes add up to the size of the File row.
C19_ChunkLayout ==
    (crawl.pc = "idle" /\ crawl.runs >= 1) =>
        \A p \in PlannedChunked :
            LET n == cat.files[p].size
                rows == ChunkRowsOf(cat, p)
            IN /\ DOMAIN rows = 0..(chunks_count(n) - 1)
               /\ cat.files[p].chunks = chunks_count(n)
               /\ \A i \in DOMAIN rows :
                     /\ rows[i].offset = i * ChunkSize
                     /\ rows[i].payload_size = Min(ChunkSize, n - i * ChunkSize)
                     /\ rows[i].status = "PENDING"
                     /\ rows[i].size = 0
               /\ PayloadSum(rows, DOMAIN rows) = n

\* a crawl has planned a Chunked file whose last chunk is shorter than the others
C19_Witness ==
    /\ crawl.pc = "idle"
    /\ crawl.runs >= 1
    /\ \E p \in PlannedChunked :
          /\ cat.files[p].size > ChunkSize
          /\ cat.files[p].size % ChunkSize # 0
          /\ Cardinality(DOMAIN ChunkRowsOf(cat, p)) >= 2

\* C20: a crawl over a tree that did not change since the crawl before it
\* inserts no File, Chunk, aggregate link or inode row and opens no aggregate
\* group.
C20_SecondCrawlInsertsNothing ==
    crawl.repeat => (cat = crawl.before /\ ~crawl.current_aggregate.some)

\* a second crawl over the same tree has ended; the first one planned an
\* aggregated file, a chunked file and the inodes of a file in a folder
C20_Witness ==
    /\ crawl.repeat
    /\ crawl.pc = "idle"
    /\ crawl.runs = 2
    /\ cat.aggregates # << >>
    /\ \E p \in FilePaths : ChunkRowsOf(cat, p) # << >>
    /\ \E i \in DOMAIN cat.inodes : cat.inodes[i].parent_id # RootInodeId

\* the rows of the aggregates table that link a file
LinksOf(c, path) == {i \in DOMAIN c.aggregates : c.aggregates[i].file_path = path}

\* the files linked to an Aggregate file
Members(c, g) ==
    {c.aggregates[i].file_path : i \in {k \in DOMAIN c.aggregates :
                                            c.aggregates[k].aggregate_path = g}}

\* the File rows with mode Aggregate
Groups(c) == {g \in DOMAIN c.files : c.files[g].mode = "AGGREGATE"}

\* the sum of the values of a function over a set of its arguments
RECURSIVE SumOver(_, _)
SumOver(f, keys) ==
    IF keys = {} THEN 0
    ELSE LET k == CHOOSE x \in keys : TRUE
         IN f[k] + SumOver(f, keys \ {k})

\* the sizes of the File rows
RowSizes(c) == [p \in DOMAIN c.files |-> c.files[p].size]

\* a step of the walk that visits a small file without aggregate link
VisitsUnlinkedSmallFile ==
    /\ crawl.pc = "walk"
    /\ crawl.order # << >>
    /\ crawl'.order = Tail(crawl.order)
    /\ MetadataLen(Head(crawl.order)) < crawl.aggregate_min_size
    /\ LinksOf(cat, Head(crawl.order)) = {}

\* C21: within one crawl run a file smaller than aggregate_min_size is linked
\* to exactly one Aggregate file, the group open once it is visited; a group
\* is opened exactly when none is open or the accumulated size of the members
\* of the open group plus the size of the file exceeds aggregate_size; every
\* group with more than one member has a total member size of at most
\* aggregate_size.
C21_AggregateGrouping ==
    /\ [][VisitsUnlinkedSmallFile =>
            LET path == Head(crawl.order)
                cur == crawl.current_aggregate
            IN /\ Cardinality(LinksOf(cat', path)) = 1
               /\ crawl'.current_aggregate.some
               /\ \A i \in LinksOf(cat', path) :
                     /\ cat'.aggregates[i].aggregate_path = crawl'.current_aggregate.value.path
                     /\ cat'.aggregates[i].aggregate_path \in Groups(cat')
               /\ Cardinality(Groups(cat') \ Groups(cat)) <= 1
               /\ (Groups(cat') # Groups(cat)) <=>
                     (\/ ~cur.some
                      \/ cur.value.size + MetadataLen(path) > crawl.aggregate_size)
               /\ (Groups(cat') = Groups(cat)) =>
                     crawl'.current_aggregate.value.path = cur.value.path]_vars
    /\ [](/\ \A p \in FilePaths : Cardinality(LinksOf(cat, p)) <= 1
          /\ (crawl.pc = "walk" /\ crawl.current_aggregate.some) =>
                crawl.current_aggregate.value.size =
                    SumOver(tree, Members(cat, crawl.current_aggregate.value.path))
          /\ \A g \in Groups(cat) :
                (Cardinality(Members(cat, g)) > 1 /\ Members(cat, g) \cap crawl.resized = {})
                    => SumOver(RowSizes(cat), Members(cat, g)) <= crawl.aggregate_size)

\* a crawl has opened two groups, one of them with two members
C21_Witness ==
    /\ crawl.pc = "idle"
    /\ crawl.runs >= 1
    /\ Cardinality(Groups(cat)) >= 2
    /\ \E g \in Groups(cat) :
          /\ Cardinality(Members(cat, g)) = 2
          /\ Members(cat, g) \cap crawl.resized = {}
          /\ SumOver(RowSizes(cat), Members(cat, g)) = crawl.aggregate_size

\* C22: in every catalog state a crawl can reach, also when single catalog
\* operations fail, every File row with mode Aggregate has exactly one Chunk
\* row, of index 0.
C22_AggregateHasOneChunk ==
    \A g \in Groups(cat) : DOMAIN ChunkRowsOf(cat, g) = {0}

\* C23: when the processing of entries fails, the walk goes on: at the end of
\* the run every regular file that is not ignored and whose processing did
\* not fail has a File row.
C23_ErrorIsolation ==
    (crawl.pc = "idle" /\ crawl.runs >= 1) =>
        \A p \in FilePaths :
            (p \notin crawl.faulted /\ ~IsIgnored(p, crawl.ignored)) => p \in DOMAIN cat.files

\* a run has ended in which the processing of a regular file failed before its
\* File row was inserted, and the two other files have their File rows
C23_Witness ==
    /\ crawl.pc = "idle"
    /\ crawl.runs >= 1
    /\ crawl.faults >= 1
    /\ \E p \in FilePaths \cap crawl.faulted :
          /\ p \notin DOMAIN cat.files
          /\ \A q \in FilePaths \ {p} : q \in DOMAIN cat.files

\* C24: an entry that is a symbolic link gives no File, Chunk, Aggregate or
\* Inode row, whatever its target is, and the walk does not descend into it.
C24_SymlinkSkipped ==
    /\ \A p \in DOMAIN cat.files : p[1] # LinkPath[1]
    /\ \A p \in DOMAIN cat.chunks : p[1] # LinkPath[1]
    /\ \A i \in DOMAIN cat.aggregates : cat.aggregates[i].file_path[1] # LinkPath[1]
    /\ \A i \in DOMAIN cat.inodes :
          ~(cat.inodes[i].name = LinkPath[1] /\ cat.inodes[i].parent_id = RootInodeId)
    /\ \A i \in DOMAIN crawl.order : crawl.order[i] \notin LinkChildren

----------------------------------------------------------------------------
(***************************************************************************)
(* controller/mount.rs: the read-only view of the catalog                  *)
(***************************************************************************)

\* the files of the mounted tree: a file in a folder and a file of one byte
BigPath == <<"d", "big">>
SmallPath == <<"small">>

\* the bytes of the source files
SourceBytes(path, n) == IF path = BigPath THEN Content(1, n) ELSE Content(2, n)

\* the catalog after the crawl of the tree where d/big has n bytes
CrawledCatalog(n, aggregate_min_size) ==
    LET v1 == visit_file(EmptyCatalog, None, 0, BigPath, n, aggregate_min_size, ChunkSize)
    IN visit_file(v1.cat, v1.current, v1.next_tar, SmallPath, 1, aggregate_min_size,
                  ChunkSize).cat

\* the tar archive of the members of an aggregate: entries in insertion order
TarArchive(c, g) ==
    [i \in 1..Cardinality({k \in DOMAIN c.aggregates :
                               c.aggregates[k].aggregate_path = g}) |->
        LET k == SortedSeq({j \in DOMAIN c.aggregates :
                               c.aggregates[j].aggregate_path = g})[i]
            m == c.aggregates[k].file_path
        IN [name |-> m, data |-> SourceBytes(m, c.files[m].size)]]

\* the payload the push puts for chunk idx of a file
PushedPayload(c, path, idx) ==
    IF c.files[path].mode = "AGGREGATE" THEN TarArchive(c, path)
    ELSE SubSeq(SourceBytes(path, c.files[path].size), c.chunks[path][idx].offset + 1,
                c.chunks[path][idx].offset + c.chunks[path][idx].payload_size)

\* the catalog after the push of every chunk: the Chunk rows are Done
PushedCatalog(c) ==
    [c EXCEPT !.chunks =
        [path \in DOMAIN c.chunks |->
            [i \in DOMAIN c.chunks[path] |->
                chunks_mark_done(c.chunks[path], i, sha256(<<i>>),
                                 c.chunks[path][i].payload_size)[i]]]]

\* the objects of the store after the push of every chunk
PushedStore(c) ==
    [k \in {ChunkUuid(path, i) : path \in DOMAIN c.chunks, i \in 0..MaxFileSize} \cap
           UNION {{ChunkUuid(path, i) : i \in DOMAIN c.chunks[path]} : path \in DOMAIN c.chunks}
        |-> Encrypted(Envelope(k[2], k[3], c.files[k[2]].chunks, c.chunks[k[2]][k[3]].offset,
                               PushedPayload(c, k[2], k[3])))]

\* Inode::to_fs_ino with the identity as encoding
to_fs_ino_identity(id) == id

\* Inode::to_fs_ino
to_fs_ino(id) == id + 1

\* Inode::from_fs_ino (u64 arithmetic: a result below 0 is an underflow)
from_fs_ino(ino) == ino - 1

\* the inode ROOT of the repository
RootInode == [name |-> "", parent_id |-> 0, file |-> << >>]

\* Repository::find_inode_by_id
find_inode_by_id(c, id) ==
    IF id = RootInodeId THEN Some(RootInode)
    ELSE IF id \in DOMAIN c.inodes THEN Some(c.inodes[id]) ELSE None

\* Inode::is_file
is_file(inode) == inode.file # << >>

\* files.find_by_uuid of the file of an inode
find_by_uuid(c, file) == IF file \in DOMAIN c.files THEN Some(c.files[file]) ELSE None

FuseError == [kind |-> "error", errno |-> "ENOENT"]
FusePanic == [kind |-> "panic"]

\* the callback returns without a call of its reply object
FuseNoReply == [kind |-> "none"]

\* Inode::file_attr: find_by_uuid(..).unwrap().unwrap() for a file
file_attr(c, id, inode, fault) ==
    IF is_file(inode)
    THEN IF fault = "file" \/ ~find_by_uuid(c, inode.file).some
         THEN FusePanic
         ELSE [kind |-> "attr", ino |-> to_fs_ino(id), ftype |-> "RegularFile",
               size |-> find_by_uuid(c, inode.file).value.size]
    ELSE [kind |-> "attr", ino |-> to_fs_ino(id), ftype |-> "Directory", size |-> 0]

\* a reply with the whole buffer
TakeFirst_all(data, n) == data

\* reply.data(&data[0..data.len().min(size)]): the first at most n bytes
TakeFirst(data, n) == SubSeq(data, 1, Min(Len(data), n))

\* read_chunked: the loop over the chunks, in index order, from the chunk at
\* position k of idxs on
RECURSIVE read_chunked_loop(_, _, _, _, _, _, _, _)
read_chunked_loop(c, path, idxs, k, offset, size, data, fault) ==
    IF k > Len(idxs)
    THEN [kind |-> "data", data |-> TakeFirst(data, size)]
    ELSE LET chunk == c.chunks[path][idxs[k]]
         IN IF offset > chunk.payload_size
            THEN read_chunked_loop(c, path, idxs, k + 1, offset - chunk.payload_size, size,
                                   data, fault)
            ELSE IF Len(data) >= size
            THEN [kind |-> "data", data |-> TakeFirst(data, size)]
            ELSE IF fault = "store" \/ ~PullFetch(ChunkUuid(path, idxs[k])).some
            THEN FuseError
            ELSE LET read == data \o PullFetch(ChunkUuid(path, idxs[k])).value.payload
                 IN IF offset > 0
                    THEN IF offset > Len(read) THEN FusePanic
                         ELSE read_chunked_loop(c, path, idxs, k + 1, 0, size,
                                                SubSeq(read, offset + 1, Len(read)), fault)
                    ELSE read_chunked_loop(c, path, idxs, k + 1, 0, size, read, fault)

\* Fs2CloudFS::read_chunked
read_chunked(c, path, offset, size, fault) ==
    IF fault = "chunks" THEN FuseError
    ELSE read_chunked_loop(c, path, SortedSeq(DOMAIN ChunkRowsOf(c, path)), 1, offset, size,
                           << >>, fault)

\* Fs2CloudFS::read_aggregated: the link is looked up, then the File row of
\* the aggregate; the function ends there
read_aggregated(c, path, offset, size, fault) ==
    IF fault = "link" \/ ~HasAggregateLink(c, path) THEN FuseError
    ELSE FuseNoReply

\* Filesystem::read
fuse_read(c, ino, offset, size, fault) ==
    LET inode == find_inode_by_id(c, from_fs_ino(ino))
    IN IF fault = "inode" \/ ~inode.some THEN FuseError
       ELSE IF ~is_file(inode.value) THEN FuseError
       ELSE IF fault = "file" \/ ~find_by_uuid(c, inode.value.file).some THEN FuseError
       ELSE LET file == find_by_uuid(c, inode.value.file).value
            IN CASE file.mode = "AGGREGATE" -> FuseError
                 [] file.mode = "CHUNKED" ->
                        read_chunked(c, inode.value.file, offset, size, fault)
                 [] file.mode = "AGGREGATED" ->
                        read_aggregated(c, inode.value.file, offset, size, fault)

\* Filesystem::getattr
fuse_getattr(c, ino, fault) ==
    LET inode == find_inode_by_id(c, from_fs_ino(ino))
    IN IF fault = "inode" \/ ~inode.some THEN FuseError
       ELSE file_attr(c, from_fs_ino(ino), inode.value, fault)

\* the names a lookup can ask for; the last one is not valid UTF-8
LookupNames == {"d", "big", "small", "x", "<not utf-8>"}

\* Filesystem::lookup: name.to_str().unwrap(), then
\* find_inode_by_name_and_parent_id and file_attr
fuse_lookup(c, parent, name, fault) ==
    IF name = "<not utf-8>" THEN FusePanic
    ELSE IF fault = "inode" THEN FuseError
    ELSE IF InodeIds(c.inodes, name, from_fs_ino(parent)) = {} THEN FuseError
    ELSE LET id == CHOOSE i \in InodeIds(c.inodes, name, from_fs_ino(parent)) :
                      \A k \in InodeIds(c.inodes, name, from_fs_ino(parent)) : i <= k
         IN [file_attr(c, id, c.inodes[id], fault) EXCEPT
                !.kind = IF @ = "attr" THEN "entry" ELSE @]

\* find_inodes_with_parent: the ids of the children
ChildIds(c, parent_id) ==
    SortedSeq({i \in DOMAIN c.inodes : c.inodes[i].parent_id = parent_id})

\* a readdir that gives an entry its own index as the offset of the next one
fuse_readdir_own_index(c, ino, offset, room, fault) ==
    IF fault = "inode" THEN FuseError
    ELSE LET ids == ChildIds(c, from_fs_ino(ino))
             last == Min(Len(ids), offset + room)
         IN [kind |-> "dir",
             entries |-> [i \in 1..(IF last > offset THEN last - offset ELSE 0) |->
                            [ino |-> to_fs_ino(ids[offset + i]),
                             next |-> offset + i - 1,
                             ftype |-> IF is_file(c.inodes[ids[offset + i]])
                                       THEN "RegularFile" ELSE "Directory",
                             name |-> c.inodes[ids[offset + i]].name]]]

\* Filesystem::readdir: the entries from offset on, until the buffer of the
\* reply, which has room for room entries, refuses one
fuse_readdir(c, ino, offset, room, fault) ==
    IF fault = "inode" THEN FuseError
    ELSE LET ids == ChildIds(c, from_fs_ino(ino))
             last == Min(Len(ids), offset + room)
         IN [kind |-> "dir",
             entries |-> [i \in 1..(IF last > offset THEN last - offset ELSE 0) |->
                            [ino |-> to_fs_ino(ids[offset + i]),
                             next |-> offset + i,
                             ftype |-> IF is_file(c.inodes[ids[offset + i]])
                                       THEN "RegularFile" ELSE "Directory",
                             name |-> c.inodes[ids[offset + i]].name]]]

\* the inode numbers a reply hands to the kernel
InosOf(reply) ==
    CASE reply.kind = "entry" -> {reply.ino}
      [] reply.kind = "dir" -> {reply.entries[i].ino : i \in DOMAIN reply.entries}
      [] OTHER -> {}

\* the replies the callback made itself: one, or none
RepliesOf(reply) == IF reply.kind \in {"none", "panic"} THEN 0 ELSE 1

\* the operations of a callback that can fail
MountFaults == {"none", "inode", "file", "chunks", "store", "link"}

mountRest == <<hashVars, disk, catalogVars, pushVars, pullVars, obsVars, pullerVars,
               poolVars, tree, crawl, links, inodeCalls, cache, codec, proc, pushers>>

MountInit ==
    /\ hs = ChunkedSha256_new
    /\ calls = << >>
    /\ ret = None
    /\ disk = [f \in FileIds |-> 0]
    /\ files = [f \in FileIds |-> NoFile]
    /\ chunks = [f \in FileIds |-> << >>]
    /\ ppc = "idle"
    /\ filesTodo = << >>
    /\ chunksTodo = << >>
    /\ hashes = << >>
    /\ worker = [w \in WorkerIds |-> IdleWorker]
    /\ dest = [f \in FileIds |-> NoDest]
    /\ pull = NoPull
    /\ run = NoRun
    /\ markDoneCalls = [f \in FileIds |-> 0]
    /\ doneFresh = {}
    /\ PoolUnused
    /\ PullerUnused
    /\ tree = << >>
    /\ crawl = NoCrawl
    /\ links = << >>
    /\ inodeCalls = << >>
    /\ cache = NoCache
    /\ fuse = NoFuse
    /\ MiscUnused
    /\ \E n \in 0..MaxFileSize, m \in AggregateMinSizes :
          /\ cat = PushedCatalog(CrawledCatalog(n, m))
          /\ store = PushedStore(CrawledCatalog(n, m))

\* the state of the mounted view after a callback
Served(op, ino, name, offset, size, fault, reply) ==
    [op |-> op, ino |-> ino, id |-> from_fs_ino(ino), name |-> name, offset |-> offset,
     size |-> size, fault |-> fault, reply |-> reply, replies |-> RepliesOf(reply),
     known |-> fuse.known \cup InosOf(reply)]

MountLookup ==
    /\ fuse.op = "none"
    /\ \E parent \in fuse.known, name \in LookupNames, fault \in {"none", "inode", "file"} :
          fuse' = Served("lookup", parent, name, 0, 0, fault,
                         fuse_lookup(cat, parent, name, fault))
    /\ UNCHANGED <<cat, store, mountRest>>

MountGetattr ==
    /\ fuse.op = "none"
    /\ \E ino \in fuse.known, fault \in {"none", "inode", "file"} :
          fuse' = Served("getattr", ino, "", 0, 0, fault, fuse_getattr(cat, ino, fault))
    /\ UNCHANGED <<cat, store, mountRest>>

MountRead ==
    /\ fuse.op = "none"
    /\ \E ino \in fuse.known, offset \in 0..(MaxFileSize + 1), size \in 0..(MaxFileSize + 1),
          fault \in MountFaults :
          fuse' = Served("read", ino, "", offset, size, fault,
                         fuse_read(cat, ino, offset, size, fault))
    /\ UNCHANGED <<cat, store, mountRest>>

MountReaddir ==
    /\ fuse.op = "none"
    /\ \E ino \in fuse.known, offset \in 0..2, room \in 0..2, fault \in {"none", "inode"} :
          fuse' = Served("readdir", ino, "", offset, room, fault,
                         fuse_readdir(cat, ino, offset, room, fault))
    /\ UNCHANGED <<cat, store, mountRest>>

\* the callback is over: the bridge waits for the next request
MountReturn ==
    /\ fuse.op # "none"
    /\ fuse' = [NoFuse EXCEPT !.known = fuse.known]
    /\ UNCHANGED <<cat, store, mountRest>>

MountNext ==
    \/ MountReturn
    \/ MountLookup
    \/ MountGetattr
    \/ MountRead
    \/ MountReaddir

SpecMount == MountInit /\ [][MountNext]_vars

\* the File row of the inode a callback was called for
ServedFile ==
    LET inode == find_inode_by_id(cat, fuse.id)
    IN IF inode.some /\ is_file(inode.value) THEN find_by_uuid(cat, inode.value.file)
       ELSE None

\* the bytes [offset, min(offset + size, n)) of a source of n bytes
SourceRange(path, n, offset, size) ==
    SubSeq(SourceBytes(path, n), offset + 1, Min(offset + size, n))

\* C25: the read of a Chunked file whose chunks are all stored replies, for
\* every offset and size, with the bytes [offset, min(offset + size, size of
\* the file)) of the source.
C25_ChunkedReadReturnsRange ==
    (/\ fuse.op = "read"
     /\ fuse.fault = "none"
     /\ ServedFile.some
     /\ ServedFile.value.mode = "CHUNKED")
        => fuse.reply = [kind |-> "data",
                         data |-> SourceRange(find_inode_by_id(cat, fuse.id).value.file,
                                              ServedFile.value.size, fuse.offset, fuse.size)]

\* a read that starts on a chunk boundary and spans two chunks has replied
C25_Witness ==
    /\ fuse.op = "read"
    /\ fuse.fault = "none"
    /\ ServedFile.some
    /\ ServedFile.value.mode = "CHUNKED"
    /\ ServedFile.value.size > 2 * ChunkSize
    /\ fuse.offset = ChunkSize
    /\ fuse.size > ChunkSize
    /\ fuse.reply.kind = "data"
    /\ Len(fuse.reply.data) > ChunkSize

\* C26: every lookup, getattr, read and readdir callback replies exactly
\* once, with data or with ENOENT, whatever the inode, the catalog and the
\* store are and whichever operation fails; no callback panics or leaves the
\* request without answer.
C26_CallbackRepliesOnce ==
    fuse.op # "none" =>
        /\ fuse.replies = 1
        /\ fuse.reply.kind \in {"entry", "attr", "data", "dir", "error"}
        /\ fuse.reply.kind = "error" => fuse.reply.errno = "ENOENT"

\* C27: the read of an Aggregated member file resolves the aggregate link,
\* loads the stored chunk of the aggregate, finds the tar entry of the member
\* and replies with the bytes [offset, min(offset + size, size of the member))
\* of the member.
C27_AggregatedReadReturnsRange ==
    (/\ fuse.op = "read"
     /\ fuse.fault = "none"
     /\ ServedFile.some
     /\ ServedFile.value.mode = "AGGREGATED")
        => fuse.reply = [kind |-> "data",
                         data |-> SourceRange(find_inode_by_id(cat, fuse.id).value.file,
                                              ServedFile.value.size, fuse.offset, fuse.size)]

\* C28: the inode number the view gives out for the inode id k is k + 1, and
\* from_fs_ino(to_fs_ino(k)) = k; the root (id 0) has the number 1; every
\* inode number a callback receives is decoded without underflow.
C28_InodeEncoding ==
    /\ \A k \in {RootInodeId} \cup DOMAIN cat.inodes :
          /\ to_fs_ino(k) = k + 1
          /\ from_fs_ino(to_fs_ino(k)) = k
    /\ to_fs_ino(RootInodeId) = 1
    /\ \A ino \in fuse.known :
          /\ from_fs_ino(ino) >= 0
          /\ from_fs_ino(ino) \in {RootInodeId} \cup DOMAIN cat.inodes
    /\ fuse.op # "none" => (fuse.ino \in fuse.known /\ fuse.id >= 0 /\ fuse.id + 1 = fuse.ino)

\* getattr was called with the number a lookup in a folder gave out and has
\* replied with the attributes of that file
C28_Witness ==
    /\ fuse.op = "getattr"
    /\ fuse.ino > 1
    /\ fuse.reply.kind = "attr"
    /\ fuse.reply.ino = fuse.ino
    /\ fuse.reply.ftype = "RegularFile"
    /\ find_inode_by_id(cat, fuse.id).value.parent_id # RootInodeId

----------------------------------------------------------------------------
(***************************************************************************)
(* fuse/fs/repository.rs: the inodes table under get-or-create calls       *)
(***************************************************************************)

\* the names of folders and the name of a file
FolderNames == {"a", "d"}
LeafName == "f"

\* get_inode_by_name_and_parent_id(name, parent_id) for a name that is not
\* empty: find, else insert and call itself again; calls counts the calls
RECURSIVE get_inode_by_name_and_parent_id(_, _, _, _)
get_inode_by_name_and_parent_id(inodes, name, parent_id, calls_made) ==
    IF InodeIds(inodes, name, parent_id) # {}
    THEN [inodes |-> inodes,
          id |-> CHOOSE i \in InodeIds(inodes, name, parent_id) :
                    \A k \in InodeIds(inodes, name, parent_id) : i <= k,
          calls |-> calls_made + 1]
    ELSE get_inode_by_name_and_parent_id(insert_inode(inodes, name, parent_id, << >>),
                                         name, parent_id, calls_made + 1)

inodeRest == <<hashVars, disk, catalogVars, store, pushVars, pullVars, obsVars, pullerVars,
               poolVars, tree, crawl, links, fuse, cache, codec, proc, pushers>>

InodeInit ==
    /\ hs = ChunkedSha256_new
    /\ calls = << >>
    /\ ret = None
    /\ disk = [f \in FileIds |-> 0]
    /\ files = [f \in FileIds |-> NoFile]
    /\ chunks = [f \in FileIds |-> << >>]
    /\ store = << >>
    /\ ppc = "idle"
    /\ filesTodo = << >>
    /\ chunksTodo = << >>
    /\ hashes = << >>
    /\ worker = [w \in WorkerIds |-> IdleWorker]
    /\ dest = [f \in FileIds |-> NoDest]
    /\ pull = NoPull
    /\ run = NoRun
    /\ markDoneCalls = [f \in FileIds |-> 0]
    /\ doneFresh = {}
    /\ PoolUnused
    /\ PullerUnused
    /\ tree = << >>
    /\ crawl = NoCrawl
    /\ links = << >>
    /\ fuse = NoFuse
    /\ MiscUnused
    /\ cache = NoCache
    /\ cat = EmptyCatalog
    /\ inodeCalls = << >>

\* fuse::fs::insert, one parent component: get_inode_by_name_and_parent_id
InodeGetOrCreate(parent_id, name) ==
    /\ Len(inodeCalls) < MaxCalls
    /\ LET r == get_inode_by_name_and_parent_id(cat.inodes, name, parent_id, 0)
       IN /\ cat' = [cat EXCEPT !.inodes = r.inodes]
          /\ inodeCalls' = Append(inodeCalls,
                                  [op |-> "get", parent_id |-> parent_id, name |-> name,
                                   id |-> r.id, calls |-> r.calls,
                                   rows |-> Len(r.inodes) - Len(cat.inodes)])
    /\ UNCHANGED inodeRest

\* fuse::fs::insert, the leaf: insert_inode(file name, parent_id, Some(uuid))
InodeInsertLeaf(parent_id) ==
    /\ Len(inodeCalls) < MaxCalls
    /\ InodeIds(cat.inodes, LeafName, parent_id) = {}
    /\ cat' = [cat EXCEPT !.inodes = insert_inode(@, LeafName, parent_id, <<LeafName>>)]
    /\ inodeCalls' = Append(inodeCalls,
                            [op |-> "leaf", parent_id |-> parent_id, name |-> LeafName,
                             id |-> Len(cat.inodes) + 1, calls |-> 1, rows |-> 1])
    /\ UNCHANGED inodeRest

\* the inodes that are folders, the root among them
FolderIds == {RootInodeId} \cup {i \in DOMAIN cat.inodes : ~is_file(cat.inodes[i])}

InodeNext ==
    \/ \E parent_id \in FolderIds, name \in FolderNames : InodeGetOrCreate(parent_id, name)
    \/ \E parent_id \in FolderIds : InodeInsertLeaf(parent_id)

SpecInode == InodeInit /\ [][InodeNext]_vars

\* C29: get_inode_by_name_and_parent_id is idempotent: for a parent and a name
\* that is not empty, successive calls return the same inode id and leave
\* exactly one row for (parent_id, name); every call ends, after at most one
\* insert and one call of itself.
C29_GetOrCreateIdempotent ==
    \A i \in DOMAIN inodeCalls :
        inodeCalls[i].op = "get" =>
            /\ InodeIds(cat.inodes, inodeCalls[i].name, inodeCalls[i].parent_id)
                  = {inodeCalls[i].id}
            /\ inodeCalls[i].calls <= 2
            /\ inodeCalls[i].rows = inodeCalls[i].calls - 1
            /\ \A j \in DOMAIN inodeCalls :
                  (/\ inodeCalls[j].op = "get"
                   /\ inodeCalls[j].name = inodeCalls[i].name
                   /\ inodeCalls[j].parent_id = inodeCalls[i].parent_id)
                      => /\ inodeCalls[j].id = inodeCalls[i].id
                         /\ j > i => inodeCalls[j].rows = 0

\* the same folder was asked for three times, other rows were inserted in
\* between
C29_Witness ==
    \E i, j, k \in DOMAIN inodeCalls :
        /\ i < j /\ j + 1 < k
        /\ inodeCalls[i].op = "get" /\ inodeCalls[j].op = "get" /\ inodeCalls[k].op = "get"
        /\ inodeCalls[i].name = inodeCalls[j].name /\ inodeCalls[j].name = inodeCalls[k].name
        /\ inodeCalls[i].parent_id = inodeCalls[j].parent_id
        /\ inodeCalls[j].parent_id = inodeCalls[k].parent_id
        /\ inodeCalls[i].parent_id # RootInodeId
        /\ inodeCalls[i].calls = 2
        /\ inodeCalls[k].calls = 1

----------------------------------------------------------------------------
(***************************************************************************)
(* store/cache.rs: the cache layer in front of a delegate store            *)
(***************************************************************************)

\* the objects and the bytes they can hold
CacheUuids == {1, 2}
CacheData == {<<1>>, <<2, 2>>}

\* a get that does not write what the delegate returned
CachedAfterGet_no_write(cached, uuid, data, write_ok) == cached

\* Cache::get after delegate.get returned data: std::fs::write(path, &data),
\* whose failure is logged only
CachedAfterGet(cached, uuid, data, write_ok) ==
    IF write_ok THEN MapInsert(cached, uuid, data) ELSE cached

\* Cache::get(object_id): std::fs::read of the cached file, else
\* delegate.get and a write of the result to the cache; read_ok, delegate_ok
\* and write_ok say which file and store operations succeed
Cache_get(c, uuid, read_ok, delegate_ok, write_ok) ==
    IF uuid \in DOMAIN c.files /\ read_ok
    THEN [files |-> c.files, result |-> Some(c.files[uuid]), delegate_gets |-> 0]
    ELSE IF uuid \in DOMAIN c.delegate /\ delegate_ok
         THEN [files |-> CachedAfterGet(c.files, uuid, c.delegate[uuid], write_ok),
               result |-> Some(c.delegate[uuid]), delegate_gets |-> 1]
         ELSE [files |-> c.files, result |-> None, delegate_gets |-> 1]

\* a put that returns the error of the write to the cache
Cache_put_cache_fatal(c, uuid, data, write_ok, delegate_ok) ==
    IF write_ok
    THEN [files |-> MapInsert(c.files, uuid, data),
          delegate |-> IF delegate_ok THEN MapInsert(c.delegate, uuid, data) ELSE c.delegate,
          delegate_puts |-> 1,
          delegate_result |-> IF delegate_ok THEN Some(<< >>) ELSE None,
          result |-> IF delegate_ok THEN Some(<< >>) ELSE None]
    ELSE [files |-> c.files, delegate |-> c.delegate, delegate_puts |-> 0,
          delegate_result |-> None, result |-> None]

\* Cache::put(object_id, data): std::fs::write to the cache, whose failure is
\* logged only, then delegate.put, whose result is the result of the put
Cache_put(c, uuid, data, write_ok, delegate_ok) ==
    LET delegate_result == IF delegate_ok THEN Some(<< >>) ELSE None
    IN [files |-> IF write_ok THEN MapInsert(c.files, uuid, data) ELSE c.files,
        delegate |-> IF delegate_ok THEN MapInsert(c.delegate, uuid, data) ELSE c.delegate,
        delegate_puts |-> 1,
        delegate_result |-> delegate_result,
        result |-> delegate_result]

cacheRest == <<hashVars, disk, catalogVars, store, pushVars, pullVars, obsVars, pullerVars,
               poolVars, crawlVars, fuse, inodeCalls, codec, proc, pushers>>

CacheInit ==
    /\ hs = ChunkedSha256_new
    /\ calls = << >>
    /\ ret = None
    /\ disk = [f \in FileIds |-> 0]
    /\ files = [f \in FileIds |-> NoFile]
    /\ chunks = [f \in FileIds |-> << >>]
    /\ store = << >>
    /\ ppc = "idle"
    /\ filesTodo = << >>
    /\ chunksTodo = << >>
    /\ hashes = << >>
    /\ worker = [w \in WorkerIds |-> IdleWorker]
    /\ dest = [f \in FileIds |-> NoDest]
    /\ pull = NoPull
    /\ run = NoRun
    /\ markDoneCalls = [f \in FileIds |-> 0]
    /\ doneFresh = {}
    /\ PoolUnused
    /\ PullerUnused
    /\ CrawlUnused
    /\ fuse = NoFuse
    /\ MiscUnused
    /\ inodeCalls = << >>
    /\ \E content \in [CacheUuids -> CacheData], stored \in SUBSET CacheUuids :
          cache = [NoCache EXCEPT !.content = content,
                                  !.delegate = [u \in stored |-> content[u]]]

\* a get through the cache layer
CacheGet(uuid) ==
    /\ \E read_ok, delegate_ok, write_ok \in BOOLEAN :
          LET r == Cache_get(cache, uuid, read_ok, delegate_ok, write_ok)
          IN cache' = [cache EXCEPT
                !.op = "get", !.uuid = uuid,
                !.files = r.files, !.result = r.result,
                !.delegate_gets = r.delegate_gets,
                !.delegate_puts = 0, !.delegate_result = None,
                !.read_failed = (uuid \in DOMAIN cache.files /\ ~read_ok),
                !.write_failed = (r.result.some /\ r.delegate_gets = 1 /\ ~write_ok),
                !.files_before = cache.files,
                !.got_before = cache.got,
                !.got = IF r.result.some /\ uuid \notin DOMAIN cache.got
                        THEN MapInsert(cache.got, uuid, r.result.value) ELSE cache.got]
    /\ UNCHANGED cacheRest

\* a put through the cache layer: the push of the chunk with this uuid
CachePut(uuid) ==
    /\ uuid \notin DOMAIN cache.delegate
    /\ \E write_ok, delegate_ok \in BOOLEAN :
          LET r == Cache_put(cache, uuid, cache.content[uuid], write_ok, delegate_ok)
          IN cache' = [cache EXCEPT
                !.op = "put", !.uuid = uuid,
                !.files = r.files, !.delegate = r.delegate, !.result = r.result,
                !.delegate_gets = 0, !.read_failed = FALSE, !.write_failed = ~write_ok,
                !.delegate_puts = r.delegate_puts, !.delegate_result = r.delegate_result,
                !.files_before = cache.files, !.got_before = cache.got]
    /\ UNCHANGED cacheRest

CacheNext ==
    \/ \E uuid \in CacheUuids : CacheGet(uuid)
    \/ \E uuid \in CacheUuids : CachePut(uuid)

SpecCache == CacheInit /\ [][CacheNext]_vars

C31_PutReturnsDelegateResult ==
    cache.op = "put" =>
        /\ cache.delegate_puts = 1
        /\ cache.result = cache.delegate_result
        /\ (cache.uuid \in DOMAIN cache.delegate) <=> cache.result.some

\* a put whose write to the cache folder failed has succeeded
C31_Witness ==
    /\ cache.op = "put"
    /\ cache.write_failed
    /\ cache.result.some
    /\ cache.uuid \notin DOMAIN cache.files

\* C39: whatever puts and gets have been made through the cache layer, and
\* whichever calls of the delegate have failed, every object in the cache
\* folder is in the delegate with the same content.
C39_CacheCoherent ==
    \A uuid \in DOMAIN cache.files :
        /\ uuid \in DOMAIN cache.delegate
        /\ cache.delegate[uuid] = cache.files[uuid]

----------------------------------------------------------------------------
(***************************************************************************)
(* store.rs: the stack backend, then Encrypt, then Cache                    *)
(***************************************************************************)

\* the kinds of backend of StoreBuilder::new that keep their objects in files
\* or nowhere; "log" is the kind of a configuration without store.type
StoreKinds == {"local", "log"}

\* Pgp::encrypt as bytes: a packet that tells its length, then the bytes of
\* the message, none of them left as it was
Pgp_encrypt(clear) == <<Len(clear)>> \o [i \in 1..Len(clear) |-> clear[i] + 100]

\* Pgp::decrypt: an error for bytes that are no complete message; for a
\* message followed by other bytes, an error or the message (lenient)
Pgp_decrypt(cipher, lenient) ==
    IF Len(cipher) = 0 \/ Len(cipher) - 1 < cipher[1] THEN None
    ELSE IF Len(cipher) - 1 > cipher[1] /\ ~lenient THEN None
    ELSE Some([i \in 1..cipher[1] |-> cipher[i + 1] - 100])

\* the bytes of a file after write_all of data at its start
WriteOver(old, data) ==
    data \o SubSeq(old, Len(data) + 1, Len(old))

\* Local::put: OpenOptions::new().create(true).write(true).open(path), then
\* write_all(data): an existing file is written over, not truncated
Local_put(objects, uuid, data) ==
    MapInsert(objects, uuid,
              IF uuid \in DOMAIN objects THEN WriteOver(objects[uuid], data) ELSE data)

\* Store::put of the backend: Local::put, or Log::put, which stores nothing
Backend_put(kind, objects, uuid, data) ==
    IF kind = "local" THEN Local_put(objects, uuid, data) ELSE objects

\* Store::get of the backend: Local::get, or Log::get, which returns no bytes
Backend_get(kind, objects, uuid) ==
    IF kind = "local"
    THEN IF uuid \in DOMAIN objects THEN Some(objects[uuid]) ELSE None
    ELSE Some(<< >>)

\* Encrypt::put: the cipher of data goes to the delegate
Encrypt_put(kind, objects, uuid, data, backend_ok) ==
    IF backend_ok
    THEN [objects |-> Backend_put(kind, objects, uuid, Pgp_encrypt(data)), ok |-> TRUE]
    ELSE [objects |-> objects, ok |-> FALSE]

\* Encrypt::get: delegate.get(object_id)?, then the decryption of its bytes
Encrypt_get(kind, objects, uuid, backend_ok, lenient) ==
    LET data == IF backend_ok THEN Backend_get(kind, objects, uuid) ELSE None
    IN IF data.some THEN Pgp_decrypt(data.value, lenient) ELSE None

\* the exposed store of StoreBuilder::new(..).encrypted(..).cached(..).build():
\* the Cache over the Encrypt layer when a cache folder is configured, the
\* Encrypt layer alone when none is
Stack_put(st, objects, uuid, data, write_ok, backend_ok) ==
    LET r == Encrypt_put(st.kind, objects, uuid, data, backend_ok)
    IN [files |-> IF st.cached /\ write_ok THEN MapInsert(st.files, uuid, data)
                  ELSE st.files,
        objects |-> r.objects,
        ok |-> r.ok]

Stack_get(st, objects, uuid, read_ok, backend_ok, lenient, write_ok) ==
    IF st.cached /\ uuid \in DOMAIN st.files /\ read_ok
    THEN [files |-> st.files, result |-> Some(st.files[uuid]), from |-> "cache"]
    ELSE LET r == Encrypt_get(st.kind, objects, uuid, backend_ok, lenient)
         IN [files |-> IF st.cached /\ r.some /\ write_ok
                       THEN MapInsert(st.files, uuid, r.value) ELSE st.files,
             result |-> r, from |-> "backend"]

NoStack == [kind |-> "local", cached |-> TRUE, files |-> << >>,
            op |-> "none", uuid |-> 0, data |-> << >>, ok |-> FALSE,
            result |-> None, from |-> "none",
            last_put |-> << >>, last_put_before |-> << >>]

stackRest == <<hashVars, disk, catalogVars, pushVars, pullVars, obsVars, pullerVars,
               poolVars, crawlVars, fuse, inodeCalls, codec, proc, pushers>>

StackInit ==
    /\ hs = ChunkedSha256_new
    /\ calls = << >>
    /\ ret = None
    /\ disk = [f \in FileIds |-> 0]
    /\ files = [f \in FileIds |-> NoFile]
    /\ chunks = [f \in FileIds |-> << >>]
    /\ store = << >>
    /\ ppc = "idle"
    /\ filesTodo = << >>
    /\ chunksTodo = << >>
    /\ hashes = << >>
    /\ worker = [w \in WorkerIds |-> IdleWorker]
    /\ dest = [f \in FileIds |-> NoDest]
    /\ pull = NoPull
    /\ run = NoRun
    /\ markDoneCalls = [f \in FileIds |-> 0]
    /\ doneFresh = {}
    /\ PoolUnused
    /\ PullerUnused
    /\ CrawlUnused
    /\ fuse = NoFuse
    /\ MiscUnused
    /\ inodeCalls = << >>
    /\ \E kind \in StoreKinds, cached \in BOOLEAN :
          cache = [NoStack EXCEPT !.kind = kind, !.cached = cached]

\* a put on the exposed store
StackPut(uuid, data) ==
    /\ \E write_ok, backend_ok \in BOOLEAN :
          LET r == Stack_put(cache, store, uuid, data, write_ok, backend_ok)
          IN /\ store' = r.objects
             /\ cache' = [cache EXCEPT
                   !.op = "put", !.uuid = uuid, !.data = data, !.ok = r.ok,
                   !.files = r.files, !.result = None, !.from = "none",
                   !.last_put_before = cache.last_put,
                   !.last_put = IF r.ok THEN MapInsert(cache.last_put, uuid, data)
                                ELSE cache.last_put]
    /\ UNCHANGED stackRest

\* a get on the exposed store
StackGet(uuid) ==
    /\ \E read_ok, backend_ok, lenient, write_ok \in BOOLEAN :
          LET r == Stack_get(cache, store, uuid, read_ok, backend_ok, lenient, write_ok)
          IN cache' = [cache EXCEPT
                !.op = "get", !.uuid = uuid, !.data = << >>, !.ok = r.result.some,
                !.files = r.files, !.result = r.result, !.from = r.from,
                !.last_put_before = cache.last_put]
    /\ UNCHANGED <<store, stackRest>>

StackNext ==
    \/ \E uuid \in CacheUuids, data \in CacheData : StackPut(uuid, data)
    \/ \E uuid \in CacheUuids : StackGet(uuid)

SpecStack == StackInit /\ [][StackNext]_vars

\* C32: in the stack backend, Encrypt, Cache, the object a successful put
\* leaves in the backend is the cipher of the bytes given to the put; what
\* the cache folder holds for an object are the bytes of the last successful
\* put of it; and a successful get of an object returns the bytes of the
\* last successful put of it, from the cache or from the backend.
C32_StackHoldsClearOverCipher ==
    /\ (cache.op = "put" /\ cache.ok /\ cache.kind = "local") =>
          /\ cache.uuid \in DOMAIN store
          /\ store[cache.uuid] = Pgp_encrypt(cache.data)
    /\ \A uuid \in DOMAIN cache.files :
          /\ uuid \in DOMAIN cache.last_put
          /\ cache.files[uuid] = cache.last_put[uuid]
    /\ (cache.op = "get" /\ cache.ok /\ cache.uuid \in DOMAIN cache.last_put) =>
          cache.result = Some(cache.last_put[cache.uuid])

----------------------------------------------------------------------------
(***************************************************************************)
(* chunk.rs: the envelope of a chunk, encoded and decoded                  *)
(***************************************************************************)

\* sequences over S of length 0..n
SeqsUpTo(S, n) == UNION {[1..k -> S] : k \in 0..n}

\* the chunks given to the encoding: ClearChunk::new(uuid, metadata, payload)
ClearChunks ==
    [version : {1}, uuid : {5},
     metadata : [file : {<< >>, <<1>>}, idx : 0..1, total : 1..2, offset : {0, ChunkSize}],
     payload : SeqsUpTo({1, 2}, MaxPayloadLen)]

\* the byte strings given to the decoding
ByteStrings == SeqsUpTo(0..2, MaxEnvelopeLen)

\* bincode::serialize(&ClearChunk): the fields in the order of the struct, the
\* uuid skipped, a string and a vector behind their length
bincode_serialize(c) ==
    <<c.version>>
        \o <<Len(c.metadata.file)>> \o c.metadata.file
        \o <<c.metadata.idx, c.metadata.total, c.metadata.offset>>
        \o <<Len(c.payload)>> \o c.payload

\* bincode::deserialize::<ClearChunk>(bytes): an error when the bytes end
\* before the struct does; bytes after the struct are ignored; the skipped
\* uuid is the default Uuid
bincode_deserialize(bytes) ==
    IF Len(bytes) < 2 \/ Len(bytes) < 2 + bytes[2] + 4 THEN None
    ELSE LET n == bytes[2]
             m == bytes[n + 6]
         IN IF Len(bytes) < n + 6 + m THEN None
            ELSE Some([version |-> bytes[1], uuid |-> 0,
                       metadata |-> [file |-> SubSeq(bytes, 3, n + 2),
                                     idx |-> bytes[n + 3],
                                     total |-> bytes[n + 4],
                                     offset |-> bytes[n + 5]],
                       payload |-> SubSeq(bytes, n + 7, n + 6 + m)])

\* ClearChunk::try_from(&Vec<u8>): value[0] of no bytes panics; a version
\* other than 1 and bytes that do not deserialize are errors
ClearChunk_try_from(bytes) ==
    IF Len(bytes) = 0 THEN [outcome |-> "panic", chunk |-> << >>]
    ELSE IF bytes[1] # 1 THEN [outcome |-> "error", chunk |-> << >>]
    ELSE LET r == bincode_deserialize(bytes)
         IN IF r.some THEN [outcome |-> "ok", chunk |-> r.value]
            ELSE [outcome |-> "error", chunk |-> << >>]

\* RemoteEncryptedChunk::decrypt: the error of pgp.decrypt is returned, the
\* result of ClearChunk::try_from is unwrapped
RemoteEncryptedChunk_decrypt(clear_bytes, pgp_ok) ==
    IF ~pgp_ok THEN [outcome |-> "error", chunk |-> << >>]
    ELSE LET r == ClearChunk_try_from(clear_bytes)
         IN IF r.outcome = "ok" THEN r ELSE [outcome |-> "panic", chunk |-> << >>]

codecRest == <<hashVars, disk, catalogVars, store, pushVars, pullVars, obsVars, pullerVars,
               poolVars, crawlVars, fuse, inodeCalls, cache, proc, pushers>>

CodecInit ==
    /\ hs = ChunkedSha256_new
    /\ calls = << >>
    /\ ret = None
    /\ disk = [f \in FileIds |-> 0]
    /\ files = [f \in FileIds |-> NoFile]
    /\ chunks = [f \in FileIds |-> << >>]
    /\ store = << >>
    /\ ppc = "idle"
    /\ filesTodo = << >>
    /\ chunksTodo = << >>
    /\ hashes = << >>
    /\ worker = [w \in WorkerIds |-> IdleWorker]
    /\ dest = [f \in FileIds |-> NoDest]
    /\ pull = NoPull
    /\ run = NoRun
    /\ markDoneCalls = [f \in FileIds |-> 0]
    /\ doneFresh = {}
    /\ PoolUnused
    /\ PullerUnused
    /\ CrawlUnused
    /\ ViewUnused

\* Vec::<u8>::try_from(&chunk), then ClearChunk::try_from of the bytes
CodecRoundTrip(c) ==
    /\ codec.op = "none"
    /\ LET bytes == bincode_serialize(c)
           r == ClearChunk_try_from(bytes)
       IN codec' = [op |-> "roundtrip", chunk |-> c, bytes |-> bytes,
                    outcome |-> r.outcome, decoded |-> r.chunk]
    /\ UNCHANGED codecRest

\* ClearChunk::try_from of some bytes
CodecDecode(bytes) ==
    /\ codec.op = "none"
    /\ LET r == ClearChunk_try_from(bytes)
       IN codec' = [op |-> "decode", chunk |-> << >>, bytes |-> bytes,
                    outcome |-> r.outcome, decoded |-> r.chunk]
    /\ UNCHANGED codecRest

\* RemoteEncryptedChunk::decrypt of an object whose clear bytes are `bytes`
CodecDecrypt(bytes) ==
    /\ codec.op = "none"
    /\ \E pgp_ok \in BOOLEAN :
          LET r == RemoteEncryptedChunk_decrypt(bytes, pgp_ok)
          IN codec' = [op |-> "decrypt", chunk |-> << >>, bytes |-> bytes,
                       outcome |-> r.outcome, decoded |-> r.chunk]
    /\ UNCHANGED codecRest

\* the caller has the outcome; the next chunk or object is its own case
CodecReturn ==
    /\ codec.op # "none"
    /\ codec' = NoCodec
    /\ UNCHANGED codecRest

CodecNext ==
    \/ CodecReturn
    \/ \E c \in ClearChunks : CodecRoundTrip(c)
    \/ \E bytes \in ByteStrings : CodecDecode(bytes)
    \/ \E bytes \in ByteStrings : CodecDecrypt(bytes)

SpecCodec == CodecInit /\ [][CodecNext]_vars

\* C33: the decoding of the encoding of a chunk is a chunk with the same
\* version, metadata and payload; the decoding of bytes whose first byte, the
\* version, is not 1 returns an error: it yields no chunk and does not panic.
C33_EnvelopeRoundTrip ==
    /\ codec.op = "roundtrip" =>
          /\ codec.outcome = "ok"
          /\ codec.decoded.version = codec.chunk.version
          /\ codec.decoded.metadata = codec.chunk.metadata
          /\ codec.decoded.payload = codec.chunk.payload
    /\ (codec.op \in {"decode", "decrypt"} /\ Len(codec.bytes) > 0 /\ codec.bytes[1] # 1) =>
          codec.outcome = "error"

----------------------------------------------------------------------------
(***************************************************************************)
(* main.rs: from main to the exit code                                     *)
(***************************************************************************)

Subcommands ==
    {"autocomplete", "crawl", "export", "mount", "import", "ls", "push", "pull", "unwrap"}

\* what run() sets up, with `?`, before it calls the execute of a subcommand,
\* in the order of evaluation of the arguments
SetupSteps(subcommand) ==
    CASE subcommand = "crawl" -> <<"root", "ignored", "catalog">>
      [] subcommand \in {"export", "import", "ls"} -> <<"catalog">>
      [] subcommand \in {"mount", "pull"} -> <<"catalog", "store", "key", "cache", "runtime">>
      [] subcommand = "push" -> <<"root", "catalog", "store", "key", "cache", "runtime">>
      [] subcommand = "unwrap" -> <<"key">>
      [] OTHER -> << >>

\* run(): Err(e) of Config::new is logged, then `return Ok(())`
ConfigErrorResult == "ok"

\* main(): std::process::exit(match run() { Ok(_) => 0, Err(e) => 1 })
ExitCode(result) == IF result = "ok" THEN 0 ELSE 1

mainRest == <<hashVars, disk, catalogVars, store, pushVars, pullVars, obsVars, pullerVars,
              poolVars, crawlVars, fuse, inodeCalls, cache, codec, pushers>>

MainInit ==
    /\ hs = ChunkedSha256_new
    /\ calls = << >>
    /\ ret = None
    /\ disk = [f \in FileIds |-> 0]
    /\ files = [f \in FileIds |-> NoFile]
    /\ chunks = [f \in FileIds |-> << >>]
    /\ store = << >>
    /\ ppc = "idle"
    /\ filesTodo = << >>
    /\ chunksTodo = << >>
    /\ hashes = << >>
    /\ worker = [w \in WorkerIds |-> IdleWorker]
    /\ dest = [f \in FileIds |-> NoDest]
    /\ pull = NoPull
    /\ run = NoRun
    /\ markDoneCalls = [f \in FileIds |-> 0]
    /\ doneFresh = {}
    /\ PoolUnused
    /\ PullerUnused
    /\ CrawlUnused
    /\ fuse = NoFuse
    /\ inodeCalls = << >>
    /\ cache = NoCache
    /\ codec = NoCodec
    /\ pushers = << >>
    /\ \E subcommand \in Subcommands :
          proc = [NoProc EXCEPT !.pc = "config", !.subcommand = subcommand]

\* Config::new(matches.value_of("config")): read and parsed, or not
MainReadConfig ==
    /\ proc.pc = "config"
    /\ \/ proc' = [proc EXCEPT !.pc = "setup", !.todo = SetupSteps(proc.subcommand)]
       \/ proc' = [proc EXCEPT !.pc = "returned", !.failed = "config",
                               !.result = ConfigErrorResult]
    /\ UNCHANGED mainRest

\* one argument of the call of execute: built, or its error returned by `?`
MainSetup ==
    /\ proc.pc = "setup"
    /\ proc.todo # << >>
    /\ \/ proc' = [proc EXCEPT !.todo = Tail(proc.todo)]
       \/ proc' = [proc EXCEPT !.pc = "returned", !.failed = Head(proc.todo),
                               !.result = "err"]
    /\ UNCHANGED mainRest

\* the execute of the subcommand, whose result is the result of run()
MainExecute ==
    /\ proc.pc = "setup"
    /\ proc.todo = << >>
    /\ \E ok \in BOOLEAN :
          proc' = [proc EXCEPT !.pc = "returned", !.ran = TRUE, !.sub_ok = ok,
                               !.result = IF ok THEN "ok" ELSE "err"]
    /\ UNCHANGED mainRest

\* std::process::exit with the code of the result of run()
MainExit ==
    /\ proc.pc = "returned"
    /\ proc' = [proc EXCEPT !.pc = "exited", !.code = ExitCode(proc.result)]
    /\ UNCHANGED mainRest

MainNext ==
    \/ MainReadConfig
    \/ MainSetup
    \/ MainExecute
    \/ MainExit

SpecMain == MainInit /\ [][MainNext]_vars

\* C35: a process whose configuration could not be read or parsed, or whose
\* catalog, key or store could not be set up, has run no subcommand and exits
\* with a code other than 0; a process that exits with 0 has run its
\* subcommand, which succeeded.
C35_StartupErrorsExitNonzero ==
    proc.pc = "exited" =>
        /\ proc.failed # "none" => (~proc.ran /\ proc.code # 0)
        /\ proc.code = 0 => (proc.ran /\ proc.sub_ok)

----------------------------------------------------------------------------
(***************************************************************************)
(* Crawl runs over a catalog that a push has completed in between          *)
(***************************************************************************)

\* the catalog after a push of every chunk and file: all rows are Done
PushedAll(c) ==
    [PushedCatalog(c) EXCEPT
        !.files = [path \in DOMAIN c.files |-> files_mark_done(c.files[path], sha256(<<1>>))]]

\* between two crawl runs a push marks every chunk and file Done
CrawlPushed ==
    /\ crawl.pc = "idle"
    /\ crawl.runs = 1
    /\ PushedAll(cat) # cat
    /\ cat' = PushedAll(cat)
    /\ UNCHANGED <<tree, links, crawl, crawlRest>>

RecrawlNext ==
    \/ CrawlNext
    \/ CrawlPushed

\* the first crawl finds files of one byte or of a chunk and a byte
RecrawlInit ==
    /\ CrawlInit
    /\ tree \in [FilePaths -> CrawlErrSizes]
    /\ crawl.aggregate_size = ChunkSize

SpecRecrawl == RecrawlInit /\ [][RecrawlNext]_vars

\* the File rows of the files of the tree whose mode is Chunked
ChunkedRows == {p \in FilePaths \cap DOMAIN cat.files : cat.files[p].mode = "CHUNKED"}

\* C36: after a crawl the chunk rows of every Chunked File row, also of a file
\* whose length on disk changed since the row was inserted, are those of the
\* count and size the File row records: indices within 0..chunks-1, offset
\* i*C, payload_size min(C, size - i*C), payload sizes adding up to at most
\* the size, and to the size when no row is missing.
C36_RecrawlKeepsFileRowPlan ==
    (crawl.pc = "idle" /\ crawl.runs >= 1) =>
        \A p \in ChunkedRows :
            LET n == cat.files[p].size
                rows == ChunkRowsOf(cat, p)
            IN /\ DOMAIN rows \subseteq 0..(cat.files[p].chunks - 1)
               /\ \A i \in DOMAIN rows :
                     /\ rows[i].offset = i * ChunkSize
                     /\ rows[i].payload_size = Min(ChunkSize, n - i * ChunkSize)
               /\ PayloadSum(rows, DOMAIN rows) <= n
               /\ DOMAIN rows = 0..(cat.files[p].chunks - 1)
                     => PayloadSum(rows, DOMAIN rows) = n

\* every row of catalog c is a row of catalog d, with the same fields
RowsKept(c, d) ==
    /\ \A p \in DOMAIN c.files : p \in DOMAIN d.files /\ d.files[p] = c.files[p]
    /\ \A p \in DOMAIN c.chunks :
          /\ p \in DOMAIN d.chunks
          /\ \A i \in DOMAIN c.chunks[p] :
                i \in DOMAIN d.chunks[p] /\ d.chunks[p][i] = c.chunks[p][i]
    /\ \A i \in DOMAIN c.aggregates :
          i \in DOMAIN d.aggregates /\ d.aggregates[i] = c.aggregates[i]
    /\ \A i \in DOMAIN c.inodes :
          i \in DOMAIN d.inodes /\ d.inodes[i] = c.inodes[i]

\* C37: a step of a crawl run deletes no row of the catalog and changes no
\* field of a File, Chunk, aggregate link or inode row: the rows that are
\* Done stay Done.
C37_CrawlOnlyInserts ==
    [][crawl.pc = "walk" => RowsKept(cat, cat')]_vars

\* the second crawl has ended: it started on a catalog whose rows a push had
\* marked Done, met a file with another length and inserted rows
C37_Witness ==
    /\ crawl.pc = "idle"
    /\ crawl.runs = 2
    /\ crawl.resized # {}
    /\ cat # crawl.before
    /\ RowsKept(crawl.before, cat)
    /\ \E p \in DOMAIN crawl.before.files : crawl.before.files[p].status = "DONE"
    /\ \E p \in DOMAIN crawl.before.chunks :
          \E i \in DOMAIN crawl.before.chunks[p] :
              crawl.before.chunks[p][i].status = "DONE"

----------------------------------------------------------------------------
(***************************************************************************)
(* The listing of a folder of the mounted view by successive readdir calls *)
(***************************************************************************)

\* the path of the k-th file of the tree: in the folder d or in the root, in turn
ListedNames == <<"p", "q", "r", "s", "t", "u", "v", "w">>
ListedPath(k) == IF k % 2 = 1 THEN <<"d", ListedNames[k]>> ELSE <<ListedNames[k]>>

\* the inodes table after the crawl of the first n files of the tree
RECURSIVE ListedInodes(_)
ListedInodes(n) ==
    IF n = 0 THEN << >>
    ELSE fuse_fs_insert(ListedInodes(n - 1), ListedPath(n), 1, RootInodeId)

NoListing == [op |-> "none", ino |-> 0, offset |-> 0, seen |-> << >>, calls |-> 0,
              done |-> FALSE]

readdirRest == <<hashVars, disk, catalogVars, store, pushVars, pullVars, obsVars, pullerVars,
                 poolVars, tree, crawl, links, inodeCalls, cache, codec, proc, pushers>>

ReaddirInit ==
    /\ hs = ChunkedSha256_new
    /\ calls = << >>
    /\ ret = None
    /\ disk = [f \in FileIds |-> 0]
    /\ files = [f \in FileIds |-> NoFile]
    /\ chunks = [f \in FileIds |-> << >>]
    /\ store = << >>
    /\ ppc = "idle"
    /\ filesTodo = << >>
    /\ chunksTodo = << >>
    /\ hashes = << >>
    /\ worker = [w \in WorkerIds |-> IdleWorker]
    /\ dest = [f \in FileIds |-> NoDest]
    /\ pull = NoPull
    /\ run = NoRun
    /\ markDoneCalls = [f \in FileIds |-> 0]
    /\ doneFresh = {}
    /\ PoolUnused
    /\ PullerUnused
    /\ tree = << >>
    /\ crawl = NoCrawl
    /\ links = << >>
    /\ inodeCalls = << >>
    /\ cache = NoCache
    /\ MiscUnused
    /\ fuse = NoListing
    /\ \E n \in 0..MaxEntries : cat = [EmptyCatalog EXCEPT !.inodes = ListedInodes(n)]

\* the kernel starts to list ino: readdir will be called with offset 0
ReaddirOpen(ino) ==
    /\ fuse.op = "none"
    /\ fuse' = [NoListing EXCEPT !.op = "listing", !.ino = ino]
    /\ UNCHANGED <<cat, readdirRest>>

\* readdir(ino, offset) with a buffer that has room for room entries; the next
\* call has the offset of the last entry the buffer took
ReaddirCall(room) ==
    /\ fuse.op = "listing"
    /\ ~fuse.done
    /\ LET r == fuse_readdir(cat, fuse.ino, fuse.offset, room, "none")
       IN fuse' = [fuse EXCEPT
             !.calls = @ + 1,
             !.seen = @ \o r.entries,
             !.offset = IF r.entries = << >> THEN @ ELSE r.entries[Len(r.entries)].next,
             !.done = (r.entries = << >>)]
    /\ UNCHANGED <<cat, readdirRest>>

\* the listing is over: a reply had no entry
ReaddirClose ==
    /\ fuse.op = "listing"
    /\ fuse.done
    /\ fuse' = NoListing
    /\ UNCHANGED <<cat, readdirRest>>

ReaddirNext ==
    \/ \E ino \in {to_fs_ino(RootInodeId)} \cup {to_fs_ino(i) : i \in DOMAIN cat.inodes} :
          ReaddirOpen(ino)
    \/ \E room \in 1..MaxRoom : ReaddirCall(room)
    \/ ReaddirClose

SpecReaddir == ReaddirInit /\ [][ReaddirNext]_vars

\* C38: the entries that the readdir calls of a listing of ino have given so
\* far are the first children of ino, each once, in the order of the catalog,
\* with the inode number id + 1; when the listing is over they are all the
\* children of ino. Every call with entries left gives at least one.
C38_ReaddirPagination ==
    fuse.op = "listing" =>
        LET ids == ChildIds(cat, from_fs_ino(fuse.ino))
        IN /\ Len(fuse.seen) <= Len(ids)
           /\ \A i \in DOMAIN fuse.seen :
                 /\ fuse.seen[i].ino = ids[i] + 1
                 /\ fuse.seen[i].name = cat.inodes[ids[i]].name
           /\ fuse.offset = Len(fuse.seen)
           /\ fuse.done => Len(fuse.seen) = Len(ids)
           /\ fuse.calls <= Len(ids) + 1

\* the listing of a folder with at least three children is over after calls
\* whose buffers took fewer entries than were left
C38_Witness ==
    /\ fuse.op = "listing"
    /\ fuse.done
    /\ Len(fuse.seen) >= 3
    /\ fuse.calls >= 3
    /\ fuse.ino # to_fs_ino(RootInodeId)

----------------------------------------------------------------------------
(***************************************************************************)
(* Two push processes on one catalog, each with its own root folder        *)
(***************************************************************************)

\* the processes; the file f is the file of the root folder of process f
Pushers == {1, 2}

\* the lengths of the files: empty, one chunk, two chunks
PushSizes == {0, 1, ChunkSize + 1}

IdleJob ==
    [pc |-> "idle", file |-> 0, idx |-> 0, data |-> << >>, all_done |-> FALSE,
     sha256 |-> EmptyString]

NoPusher ==
    [pc |-> "scan", scan_idx |-> 0, filesTodo |-> << >>, chunksTodo |-> << >>,
     hashes |-> << >>, job |-> IdleJob]

\* fs::File::open(root_folder + file.path) of Push::execute: the files of
\* the other root folder are not in this one
CanOpen(p, f) == p = f

push2Rest == <<hashVars, pushVars, pullVars, obsVars, pullerVars, poolVars, crawlVars,
               fuse, inodeCalls, cache, codec, proc>>

Push2Init ==
    /\ hs = ChunkedSha256_new
    /\ calls = << >>
    /\ ret = None
    /\ ppc = "idle"
    /\ filesTodo = << >>
    /\ chunksTodo = << >>
    /\ hashes = << >>
    /\ worker = [w \in WorkerIds |-> IdleWorker]
    /\ dest = [f \in FileIds |-> NoDest]
    /\ pull = NoPull
    /\ run = NoRun
    /\ markDoneCalls = [f \in FileIds |-> 0]
    /\ doneFresh = {}
    /\ PoolUnused
    /\ PullerUnused
    /\ CrawlUnused
    /\ fuse = NoFuse
    /\ inodeCalls = << >>
    /\ cache = NoCache
    /\ codec = NoCodec
    /\ proc = NoProc
    /\ disk \in [Pushers -> PushSizes]
    /\ files = [f \in Pushers |-> NoFile]
    /\ chunks = [f \in Pushers |-> << >>]
    /\ store = << >>
    /\ pushers = [procs |-> [p \in Pushers |-> NoPusher], inserts |-> << >>]

\* visit_file of the scan of process p: files.find_by_path, else files.insert
Push2VisitFile(p) ==
    /\ pushers.procs[p].pc = "scan"
    /\ files' = [files EXCEPT ![p] = VisitedFileRow(@, disk[p])]
    /\ pushers' = [pushers EXCEPT !.procs[p].pc = "scan_chunks", !.procs[p].scan_idx = 0]
    /\ UNCHANGED <<disk, chunks, store, push2Rest>>

\* visit_file, one chunk_index of 0..chunks_count:
\* chunks.find_by_file_uuid_and_index, else chunks.insert
Push2VisitChunk(p) ==
    /\ pushers.procs[p].pc = "scan_chunks"
    /\ pushers.procs[p].scan_idx < chunks_count(disk[p])
    /\ LET idx == pushers.procs[p].scan_idx
       IN IF idx \in DOMAIN chunks[p]
          THEN /\ chunks' = chunks
               /\ pushers' = [pushers EXCEPT !.procs[p].scan_idx = idx + 1]
          ELSE /\ chunks' = [chunks EXCEPT ![p] = MapInsert(@, idx, NewChunk(idx, disk[p]))]
               /\ pushers' = [pushers EXCEPT !.procs[p].scan_idx = idx + 1,
                                             !.inserts = CountPut(@, <<p, idx>>)]
    /\ UNCHANGED <<disk, files, store, push2Rest>>

\* Push::execute after visit_dir: files.list_by_status("PENDING")
Push2List(p) ==
    /\ pushers.procs[p].pc = "scan_chunks"
    /\ pushers.procs[p].scan_idx >= chunks_count(disk[p])
    /\ pushers' = [pushers EXCEPT
          !.procs[p].pc = "files",
          !.procs[p].filesTodo =
              SortedSeq({f \in Pushers : files[f].present /\ files[f].status = "PENDING"})]
    /\ UNCHANGED <<disk, files, chunks, store, push2Rest>>

\* Push::execute, next iteration of `for file in files`: the Pending chunks
\* of the file, then fs::File::open, whose error skips the file
Push2NextFile(p) ==
    /\ pushers.procs[p].pc = "files"
    /\ pushers.procs[p].chunksTodo = << >>
    /\ pushers.procs[p].filesTodo # << >>
    /\ LET f == Head(pushers.procs[p].filesTodo)
           idxs == ChunksToPush(chunks[f])
       IN pushers' = [pushers EXCEPT
             !.procs[p].filesTodo = Tail(@),
             !.procs[p].chunksTodo = IF CanOpen(p, f)
                                     THEN [k \in 1..Len(idxs) |-> <<f, idxs[k]>>]
                                     ELSE << >>]
    /\ UNCHANGED <<disk, files, chunks, store, push2Rest>>

\* Push::process_chunk: the slice is read and the job given to the pool,
\* whose worker is free
Push2ProcessChunk(p) ==
    /\ pushers.procs[p].pc = "files"
    /\ pushers.procs[p].chunksTodo # << >>
    /\ pushers.procs[p].job.pc = "idle"
    /\ LET f == Head(pushers.procs[p].chunksTodo)[1]
           idx == Head(pushers.procs[p].chunksTodo)[2]
           row == chunks[f][idx]
           data == ReadSlice(f, row.offset, row.payload_size)
       IN IF Len(data) # row.payload_size
          THEN pushers' = [pushers EXCEPT !.procs[p].chunksTodo = Tail(@)]
          ELSE pushers' = [pushers EXCEPT
                  !.procs[p].chunksTodo = Tail(@),
                  !.procs[p].hashes = IF f \in DOMAIN @ THEN @
                                      ELSE MapInsert(@, f, ChunkedSha256_new),
                  !.procs[p].job = [pc |-> "push", file |-> f, idx |-> idx, data |-> data,
                                    all_done |-> FALSE, sha256 |-> EmptyString]]
    /\ UNCHANGED <<disk, files, chunks, store, push2Rest>>

\* the job: store.put of the envelope, then chunks.mark_done
Push2JobPush(p) ==
    /\ pushers.procs[p].job.pc = "push"
    /\ LET j == pushers.procs[p].job
       IN store' = MapInsert(store, ChunkUuid(j.file, j.idx),
                             Encrypted(Envelope(j.file, j.idx, files[j.file].chunks,
                                                chunks[j.file][j.idx].offset, j.data)))
    /\ pushers' = [pushers EXCEPT !.procs[p].job.pc = JobAfterPut(TRUE)]
    /\ UNCHANGED <<disk, files, chunks, push2Rest>>

\* finalize: chunks.mark_done(uuid, sha256(payload), payload.len())
Push2JobMarkChunkDone(p) ==
    /\ pushers.procs[p].job.pc = "mark_chunk"
    /\ LET j == pushers.procs[p].job
       IN chunks' = [chunks EXCEPT ![j.file] =
                        chunks_mark_done(@, j.idx, sha256(j.data), Len(j.data))]
    /\ pushers' = [pushers EXCEPT !.procs[p].job.pc = "siblings"]
    /\ UNCHANGED <<disk, files, store, push2Rest>>

\* finalize: chunks.find_siblings_by_uuid, hash.update and, when every
\* sibling is Done, hash.finalize
Push2JobSiblings(p) ==
    /\ pushers.procs[p].job.pc = "siblings"
    /\ LET j == pushers.procs[p].job
           h1 == ChunkedSha256_update(pushers.procs[p].hashes[j.file], j.data, j.idx)
           fin == ChunkedSha256_finalize(h1)
       IN IF AllSiblingsDone(chunks[j.file])
          THEN pushers' = [pushers EXCEPT
                  !.procs[p].hashes[j.file] = fin.h,
                  !.procs[p].job.pc = "mark_file",
                  !.procs[p].job.all_done = TRUE,
                  !.procs[p].job.sha256 = IF fin.out.some THEN fin.out.value
                                          ELSE EmptyString]
          ELSE pushers' = [pushers EXCEPT
                  !.procs[p].hashes[j.file] = h1,
                  !.procs[p].job = IdleJob]
    /\ UNCHANGED <<disk, files, chunks, store, push2Rest>>

\* finalize: files.mark_done(file_uuid, sha256)
Push2JobMarkFileDone(p) ==
    /\ pushers.procs[p].job.pc = "mark_file"
    /\ files' = [files EXCEPT ![pushers.procs[p].job.file] =
                    files_mark_done(@, pushers.procs[p].job.sha256)]
    /\ pushers' = [pushers EXCEPT !.procs[p].job = IdleJob]
    /\ UNCHANGED <<disk, chunks, store, push2Rest>>

\* Push::execute returns and the pool is dropped: the job has finished
Push2Finish(p) ==
    /\ pushers.procs[p].pc = "files"
    /\ pushers.procs[p].filesTodo = << >>
    /\ pushers.procs[p].chunksTodo = << >>
    /\ pushers.procs[p].job.pc = "idle"
    /\ pushers' = [pushers EXCEPT !.procs[p].pc = "done"]
    /\ UNCHANGED <<disk, files, chunks, store, push2Rest>>

Push2Step(p) ==
    \/ Push2VisitFile(p)
    \/ Push2VisitChunk(p)
    \/ Push2List(p)
    \/ Push2NextFile(p)
    \/ Push2ProcessChunk(p)
    \/ Push2JobPush(p)
    \/ Push2JobMarkChunkDone(p)
    \/ Push2JobSiblings(p)
    \/ Push2JobMarkFileDone(p)
    \/ Push2Finish(p)

Push2Next == \E p \in Pushers : Push2Step(p)

SpecPush2 == Push2Init /\ [][Push2Next]_vars

\* C34: of two push processes on one catalog, each with its own files, one
\* that has not returned can take a step, whatever the other does; when both
\* have returned every file is Done; no chunk row is inserted twice for one
\* file and index.
C34_ParallelPushesComplete ==
    /\ \A p \in Pushers : pushers.procs[p].pc # "done" => ENABLED Push2Step(p)
    /\ (\A p \in Pushers : pushers.procs[p].pc = "done") =>
          \A f \in Pushers : files[f].present /\ files[f].status = "DONE"
    /\ \A k \in DOMAIN pushers.inserts : pushers.inserts[k] <= 1

====
